---- MODULE Spec2Model ----
(***************************************************************************)
(* A model of the Plex account aggregation manager: the TTLCache           *)
(* (cache.ts), the directory client (plexClient.ts) and the                *)
(* PlexAccountManager (plexManager.ts).                                    *)
(*                                                                         *)
(* JavaScript runs one continuation at a time: the code between two awaits *)
(* of a remote request is one atomic action here.  The remote service is   *)
(* a nondeterministic choice of each response.  Date.now() is the variable *)
(* now, which Tick advances between any two actions.                       *)
(*                                                                         *)
(* Optional values (T | null | undefined) are sequences of length 0 or 1.  *)
(* Strings that the code inspects character by character (trim,           *)
(* toLowerCase, template concatenation) are sequences of one-character     *)
(* strings.                                                                *)
(***************************************************************************)
EXTENDS Integers, Sequences, FiniteSets, TLC

\* ---------------------------------------------------------------- bounds

\* Date.now() ranges over 0 .. MaxTime.
MaxTime == 2

\* options.cacheTtlMs, the configured time-to-live (one value for both tiers).
cacheTtlMs == 1

\* Top-level manager calls started in one behaviour of Spec.
MaxOps == 2

\* Calls of getServers and clearCaches started in one behaviour of
\* SpecServers, where two callers overlap.
MaxServerOps == 2

\* Calls of getServers and clearCaches started in one behaviour of
\* SpecRepeat, where one caller calls again and again.
MaxRepeatOps == 3

\* Operations started in the specification of cache clearing.
MaxClearOps == 3

\* Calls of generateAuthPin and checkAuthPinStatus started in one behaviour
\* of SpecPin.
MaxPinOps == 3

\* Calls started in one behaviour of SpecIdentity.
MaxIdentityOps == 2

\* Operations started in one behaviour of SpecLive.
MaxLiveOps == 1

\* ------------------------------------------------------------- optionals

None == <<>>

Some(v) == <<v>>

IsSome(o) == Len(o) = 1

\* a ?? b
OrElse(a, b) == IF IsSome(a) THEN a ELSE b

\* ------------------------------------------------------------- sequences

RECURSIVE SeqToSet(_)
SeqToSet(s) == IF s = <<>> THEN {} ELSE {Head(s)} \cup SeqToSet(Tail(s))

RECURSIVE FilterSeq(_, _)
\* The subsequence of s at the indices whose element is in keep.
FilterSeq(s, keep) ==
  IF s = <<>> THEN <<>>
  ELSE IF Head(s) \in keep THEN <<Head(s)>> \o FilterSeq(Tail(s), keep)
  ELSE FilterSeq(Tail(s), keep)

\* --------------------------------------------------------------- TTLCache

\* Map.delete(key)
MapDelete(store, key) == [k \in DOMAIN store \ {key} |-> store[k]]

\* Map.set(key, entry)
MapSet(store, key, entry) ==
  [k \in DOMAIN store \cup {key} |-> IF k = key THEN entry ELSE store[k]]

EmptyStore == [k \in {} |-> None]

\* Mutant of TTLGet: an expired entry is reported absent but left in the store.
TTLGetNoEvict(store, key, t) ==
  IF key \notin DOMAIN store
  THEN [value |-> None, store |-> store]
  ELSE IF t > store[key].expiresAt
  THEN [value |-> None, store |-> store]
  ELSE [value |-> Some(store[key].value), store |-> store]

\* Mutant of TTLGet: a read of an entry within its TTL renews it.
TTLGetRenews(store, key, t) ==
  IF key \notin DOMAIN store
  THEN [value |-> None, store |-> store]
  ELSE IF t > store[key].expiresAt
  THEN [value |-> None, store |-> MapDelete(store, key)]
  ELSE [value |-> Some(store[key].value),
        store |-> MapSet(store, key, [value |-> store[key].value,
                                      expiresAt |-> t + cacheTtlMs])]

\* TTLCache.get at time t: the value returned (None for undefined) and the
\* store it leaves.
TTLGet(store, key, t) ==
  IF key \notin DOMAIN store
  THEN [value |-> None, store |-> store]
  ELSE IF t > store[key].expiresAt
  THEN [value |-> None, store |-> MapDelete(store, key)]
  ELSE [value |-> Some(store[key].value), store |-> store]

\* Mutant of TTLSet: the entry is stamped with the time of the write alone.
TTLSetNoTtl(store, key, value, t) ==
  MapSet(store, key, [value |-> value, expiresAt |-> t])

\* Mutant of TTLSet: an entry already in the store is kept.
TTLSetKeepsFirst(store, key, value, t) ==
  IF key \in DOMAIN store THEN store
  ELSE MapSet(store, key, [value |-> value, expiresAt |-> t + cacheTtlMs])

\* TTLCache.set at time t.
TTLSet(store, key, value, t) ==
  MapSet(store, key, [value |-> value, expiresAt |-> t + cacheTtlMs])

\* TTLCache.clear(key?): key is None for clear().
TTLClear(store, key) ==
  IF key = None THEN EmptyStore ELSE MapDelete(store, key[1])

\* ---------------------------------------------------------------- strings

\* String.prototype.toLowerCase on one character of the model's alphabet.
ToLowerChar(c) ==
  CASE c = "A" -> "a"
    [] c = "M" -> "m"
    [] c = "U" -> "u"
    [] OTHER -> c

ToLowerCase(s) == [i \in 1 .. Len(s) |-> ToLowerChar(s[i])]

IsSpace(c) == c \in {" ", "\t"}

RECURSIVE TrimStart(_)
TrimStart(s) ==
  IF s # <<>> /\ IsSpace(Head(s)) THEN TrimStart(Tail(s)) ELSE s

RECURSIVE TrimEnd(_)
TrimEnd(s) ==
  IF s # <<>> /\ IsSpace(s[Len(s)])
  THEN TrimEnd(SubSeq(s, 1, Len(s) - 1))
  ELSE s

\* String.prototype.trim
Trim(s) == TrimEnd(TrimStart(s))

Digit(n) == <<"0", "1", "2", "3", "4", "5", "6", "7", "8", "9">>[n + 1]

RECURSIVE NumStr(_)
\* `${n}` for a natural number n
NumStr(n) ==
  IF n < 10 THEN <<Digit(n)>> ELSE NumStr(n \div 10) \o <<Digit(n % 10)>>

\* ------------------------------------------------- plexClient: resources

PlexMediaServer == "Plex Media Server"

\* getResources on a response: the devices of the listing that are media
\* servers, each as a PlexResource; [] when the request or the parse threw.
\* resp = [ok |-> BOOLEAN, devices |-> sequence of raw devices]
GetResourcesResult(resp) ==
  IF ~resp.ok THEN <<>>
  ELSE LET pms == {d \in SeqToSet(resp.devices) : d.product = PlexMediaServer}
           kept == FilterSeq(resp.devices, pms)
       IN [i \in 1 .. Len(kept) |->
             [machineIdentifier |-> kept[i].clientIdentifier,
              connections |-> kept[i].connections]]

\* Mutant of MakeServer: the server is labelled with the product of its
\* resource.
MakeServerOfProduct(resource, connection, accountLabel) ==
  [machineIdentifier |-> resource.machineIdentifier,
   uri |-> connection.uri,
   accountLabel |-> "Plex Media Server"]

\* The PlexServer connectToServer returns for an endpoint that answered.
MakeServer(resource, connection, accountLabel) ==
  [machineIdentifier |-> resource.machineIdentifier,
   uri |-> connection.uri,
   accountLabel |-> accountLabel]

\* connectToServer's loop from connection index ci on: the index of the next
\* connection with a uri, or 0 when none is left (the function returns null).
RECURSIVE NextProbe(_, _)
NextProbe(resource, ci) ==
  IF ci > Len(resource.connections) THEN 0
  ELSE IF resource.connections[ci].uri = "" THEN NextProbe(resource, ci + 1)
  ELSE ci

\* ----------------------------------------------------- plexClient: users

\* attrs.id ? Number(attrs.id) : null.  A raw id is None or
\* Some([n |-> number, str |-> whether it arrived as a string]).
MapId(rawId) ==
  IF rawId = None THEN None
  ELSE IF ~rawId[1].str /\ rawId[1].n = 0 THEN None
  ELSE Some(rawId[1].n)

\* Mutant of mapAccountNode: the record carries no server identity.
mapAccountNodeNoServer(node, server, accountLabel) ==
  [id |-> MapId(node.id),
   uuid |-> OrElse(node.uuid, node.UUID),
   username |-> OrElse(node.username, node.name),
   title |-> OrElse(node.title, node.friendlyName),
   email |-> OrElse(node.email, node.Email),
   serverIdentifier |-> <<>>,
   accountLabel |-> accountLabel]

mapAccountNode(node, server, accountLabel) ==
  [id |-> MapId(node.id),
   uuid |-> OrElse(node.uuid, node.UUID),
   username |-> OrElse(node.username, node.name),
   title |-> OrElse(node.title, node.friendlyName),
   email |-> OrElse(node.email, node.Email),
   serverIdentifier |-> server.machineIdentifier,
   accountLabel |-> accountLabel]

\* The records the local accounts listing adds to results.
\* resp = [ok |-> BOOLEAN, nodes |-> sequence of raw nodes]
LocalRecords(resp, server) ==
  IF ~resp.ok THEN <<>>
  ELSE [i \in 1 .. Len(resp.nodes) |->
          mapAccountNode(resp.nodes[i], server, server.accountLabel)]

\* One SharedServer entry: its SharedUser children, or the entry itself.
SharedEntryRecords(entry, server) ==
  IF Len(entry.SharedUser) > 0
  THEN [i \in 1 .. Len(entry.SharedUser) |->
          mapAccountNode(entry.SharedUser[i], server, server.accountLabel)]
  ELSE <<mapAccountNode(entry.attrs, server, server.accountLabel)>>

RECURSIVE SharedRecordsOf(_, _)
SharedRecordsOf(entries, server) ==
  IF entries = <<>> THEN <<>>
  ELSE SharedEntryRecords(Head(entries), server)
         \o SharedRecordsOf(Tail(entries), server)

\* The records the shared_servers listing adds to results.
\* resp = [ok |-> BOOLEAN, entries |-> sequence of SharedServer entries]
SharedRecords(resp, server) ==
  IF ~resp.ok THEN <<>> ELSE SharedRecordsOf(resp.entries, server)

Unknown == <<"u", "n", "k", "n", "o", "w", "n">>

\* keySource of fetchServerUsers
KeySource(user) ==
  IF IsSome(user.email) THEN user.email[1]
  ELSE IF IsSome(user.uuid) THEN user.uuid[1]
  ELSE IF IsSome(user.username) /\ user.username[1] # <<>>
  THEN user.serverIdentifier \o <<"-">> \o user.username[1]
  ELSE user.serverIdentifier \o <<"-">>
         \o (IF IsSome(user.id) THEN NumStr(user.id[1]) ELSE Unknown)

\* key of fetchServerUsers
DedupKey(user) == ToLowerCase(KeySource(user))

RECURSIVE DedupLastWins(_, _, _)
\* Mutant of DedupLoop: deduped.set(key, user) without the has(key) test, so
\* the value under a key is the last record seen with it.
DedupLastWins(results, keys, values) ==
  IF results = <<>> THEN values
  ELSE LET user == Head(results)
           key == DedupKey(user)
           at == {i \in 1 .. Len(keys) : keys[i] = key}
       IN IF at # {}
          THEN DedupLastWins(Tail(results), keys,
                 [i \in 1 .. Len(values) |-> IF i \in at THEN user ELSE values[i]])
          ELSE DedupLastWins(Tail(results), Append(keys, key), Append(values, user))

RECURSIVE DedupLoop(_, _, _)
\* The loop over results of fetchServerUsers: deduped as the sequence of its
\* keys and the sequence of its values, both in insertion order.
DedupLoop(results, keys, values) ==
  IF results = <<>> THEN values
  ELSE LET user == Head(results)
           key == DedupKey(user)
       IN IF \E i \in 1 .. Len(keys) : keys[i] = key
          THEN DedupLoop(Tail(results), keys, values)
          ELSE DedupLoop(Tail(results), Append(keys, key), Append(values, user))

\* Array.from(deduped.values()) of fetchServerUsers
Dedup(results) == DedupLoop(results, <<>>, <<>>)

\* ------------------------------------------------------- the remote service

\* Raw devices of a /pms/resources listing.
DevWeb ==
  [product |-> "Plex Web", clientIdentifier |-> <<"M", "9">>,
   connections |-> <<[uri |-> "u9"]>>]

DevM1 ==
  [product |-> PlexMediaServer, clientIdentifier |-> <<"M", "1">>,
   connections |-> <<[uri |-> ""], [uri |-> "u1"], [uri |-> "u2"]>>]

DevM1Again ==
  [product |-> PlexMediaServer, clientIdentifier |-> <<"M", "1">>,
   connections |-> <<[uri |-> "u3"]>>]

DevM2 ==
  [product |-> PlexMediaServer, clientIdentifier |-> <<"M", "2">>,
   connections |-> <<>>]

\* What the resource listing may answer to a credential: a failure, or the
\* devices that credential sees.
ResourceResponses(token) ==
  {[ok |-> FALSE, devices |-> <<>>],
   [ok |-> TRUE,
    devices |-> IF token = "ta" THEN <<DevWeb, DevM1, DevM1Again>>
                ELSE <<DevM2, DevM1Again>>]}

\* What a connection probe may answer: a body with a MediaContainer, a body
\* without one, or a failure.
ProbeResponses == {"container", "other", "fail"}

NoNode ==
  [id |-> None, uuid |-> None, UUID |-> None, username |-> None,
   name |-> None, title |-> None, friendlyName |-> None, email |-> None,
   Email |-> None]

NodeGuest ==
  [NoNode EXCEPT !.id = Some([n |-> 0, str |-> FALSE]),
                 !.name = Some(<<>>)]

NodeLocal ==
  [NoNode EXCEPT !.id = Some([n |-> 1, str |-> FALSE]),
                 !.name = Some(<<"u", "1">>),
                 !.email = Some(<<"a">>)]

NodeShared ==
  [NoNode EXCEPT !.id = Some([n |-> 2, str |-> TRUE]),
                 !.username = Some(<<"u", "2">>),
                 !.Email = Some(<<"A">>)]

NodeFriend ==
  [NoNode EXCEPT !.id = Some([n |-> 3, str |-> TRUE]),
                 !.title = Some(<<"f">>)]

\* What a server's local accounts listing may answer.
LocalResponses ==
  {[ok |-> FALSE, nodes |-> <<>>],
   [ok |-> TRUE, nodes |-> <<NodeGuest, NodeLocal>>]}

\* What the shared_servers listing may answer.
SharedResponses ==
  {[ok |-> FALSE, entries |-> <<>>],
   [ok |-> TRUE,
    entries |-> <<[attrs |-> NoNode, SharedUser |-> <<NodeShared>>],
                  [attrs |-> NodeFriend, SharedUser |-> <<>>]>>]}

\* What /users/account.json may answer: a failure, a body without user, or
\* a body with one.
ValidateResponses ==
  {[ok |-> FALSE, user |-> None],
   [ok |-> TRUE, user |-> None],
   [ok |-> TRUE, user |-> Some([username |-> "bob", email |-> "bob@x"])]}

\* What the PIN endpoints may answer: a failure, a body without pin, or the
\* remote service's snapshot of the PIN.
PinResponses ==
  {[ok |-> FALSE, pin |-> None],
   [ok |-> TRUE, pin |-> None],
   [ok |-> TRUE,
    pin |-> Some([id |-> 7, code |-> "K", expiresAt |-> "e", authToken |-> None])],
   [ok |-> TRUE,
    pin |-> Some([id |-> 7, code |-> "K", expiresAt |-> "e",
                  authToken |-> Some("tok")])],
   [ok |-> TRUE,
    pin |-> Some([id |-> 8, code |-> "L", expiresAt |-> "x", authToken |-> None])]}

\* ------------------------------------------------------------ the manager

\* The configured accounts (ConfigAccount[]); labels are unique (the data
\* model's Account.label).
ConfigA == [label |-> "a", token |-> "ta", clientIdentifier |-> None]

ConfigB == [label |-> "b", token |-> "tb", clientIdentifier |-> Some("dev-b")]

Configs == {<<ConfigA>>, <<ConfigA, ConfigB>>}

Tokens == {"ta", "tb"}

\* sha1(label) as 32 hex characters: a value that depends on the label only.
deterministicIdentifier(label) == "sha1:" \o label

\* Mutant of ConstructAccounts: the identifier is derived from the token.
ConstructAccountsByToken(config) ==
  [i \in 1 .. Len(config) |->
     [label |-> config[i].label,
      token |-> config[i].token,
      clientIdentifier |->
        IF IsSome(config[i].clientIdentifier)
        THEN config[i].clientIdentifier[1]
        ELSE deterministicIdentifier(config[i].token)]]

\* The constructor's this.accounts
ConstructAccounts(config) ==
  [i \in 1 .. Len(config) |->
     [label |-> config[i].label,
      token |-> config[i].token,
      clientIdentifier |->
        IF IsSome(config[i].clientIdentifier)
        THEN config[i].clientIdentifier[1]
        ELSE deterministicIdentifier(config[i].label)]]

Callers == {"c1", "c2"}

\* The queries searchUsers is called with, as character sequences.
Queries == {<<" ", "\t">>, <<" ", "a", " ">>}

\* options.maxResults: None when not given.
MaxResultsOptions == {None, Some(1)}

DefaultMaxResults == 25

\* How fuse.js (an external library) ranks the users: a choice made at each
\* search.
FuseBehaviours == {"none", "all", "reversed"}

ServerKey(label) == <<"servers", label>>

UserKey(server) == <<"users", server.machineIdentifier, server.accountLabel>>

SeenKey(server, label) == <<server.machineIdentifier, label>>

EmptySearch == [matches |-> <<>>, totalMatched |-> 0, totalSearched |-> 0]

\* One call of the remote service, as a frame's log records it.
Call(kind, a, b, c) ==
  [kind |-> kind, a |-> a, b |-> b, c |-> c, res |-> "pending",
   identity |-> None]

\* createRequestOptions(token, clientIdentifier): options.clientIdentifier,
\* set when the identifier given is truthy; None when it is left unset, and
\* buildHeaders then draws a uuidv4() for the request.
createRequestOptions(clientIdentifier) ==
  IF clientIdentifier # "" THEN Some(clientIdentifier) ELSE None

\* The call as request() sends it for the client identifier given.
Sent(call, clientIdentifier) ==
  [call EXCEPT !.identity = createRequestOptions(clientIdentifier)]

\* The call as the PIN endpoints are sent it: buildHeaders({clientIdentifier}).
SentPin(call, clientIdentifier) ==
  [call EXCEPT !.identity = Some(clientIdentifier)]

\* Mutant of Answered: the call goes on without its request's answer.
AnsweredNotAwaited(log, res) == log

\* The last call of the log has answered (res is "ok") or failed ("failed").
Answered(log, res) == [log EXCEPT ![Len(log)].res = res]

\* The state of one top-level call: the locals of the manager method and of
\* the client function it awaits, and what the call did so far.
IdleFrame ==
  [n |-> 0, op |-> "none", pc |-> "idle", refresh |-> FALSE,
   i |-> 0, resources |-> <<>>, ri |-> 0, ci |-> 0, connected |-> <<>>,
   aggregated |-> <<>>, seen |-> {},
   si |-> 0, results |-> <<>>, users |-> <<>>,
   query |-> <<>>, maxResults |-> None, fuse |-> "none", search |-> EmptySearch,
   validation |-> <<>>,
   identifier |-> "", pinId |-> 0, pin |-> None, url |-> None, answer |-> None,
   log |-> <<>>, used |-> <<>>, uused |-> <<>>, repeat |-> "no"]

VARIABLES
  now,          \* Date.now()
  accounts,     \* PlexAccountManager.accounts
  serverCache,  \* the store of PlexAccountManager.serverCache
  userCache,    \* the store of PlexAccountManager.userCache
  frames,       \* the call each caller has in progress or has completed
  started,      \* the number of top-level calls started
  cacheStore,   \* the store of a TTLCache used on its own
  lastGet,      \* what the last get of that cache read, returned and left
  listing,      \* the two responses fetchServerUsers is run on, on its own
  fetched       \* what that run of fetchServerUsers built and returned

vars ==
  <<now, accounts, serverCache, userCache, frames, started,
    cacheStore, lastGet, listing, fetched>>

\* The variables of the cache and of fetchServerUsers run on their own.
alone == <<cacheStore, lastGet, listing, fetched>>

\* What a frame remembers of one cache read: whether the key was absent,
\* expired or fresh, and the entry the call went on with (the one read, or
\* the one it wrote at time `at`), with the responses that built it.
Used(state, value, expiresAt) ==
  [state |-> state, wrote |-> FALSE, value |-> value, expiresAt |-> expiresAt,
   at |-> 0, resp |-> None, shared |-> None]

ReadState(store, key, t) ==
  IF key \notin DOMAIN store THEN "absent"
  ELSE IF t > store[key].expiresAt THEN "expired"
  ELSE "fresh"

UsedOfRead(store, key, t) ==
  IF ReadState(store, key, t) = "fresh"
  THEN Used("fresh", store[key].value, store[key].expiresAt)
  ELSE Used(ReadState(store, key, t), <<>>, 0)

\* The state a step leaves: the caller's frame and the two stores.
Out(f, sc, uc) == [f |-> f, sc |-> sc, uc |-> uc]

\* Mutant of MergeServers: seen is keyed by the machine identifier alone.
MergeServersByMachine(servers, label, aggregated, seen) ==
  LET new == {p \in 1 .. Len(servers) :
                /\ <<servers[p].machineIdentifier>> \notin seen
                /\ \A q \in 1 .. p - 1 :
                     servers[q].machineIdentifier # servers[p].machineIdentifier}
  IN [aggregated |-> aggregated \o FilterSeq(servers, {servers[p] : p \in new}),
      seen |-> seen \cup {<<servers[p].machineIdentifier>> : p \in new}]

RECURSIVE MergeServers(_, _, _, _)
\* getServers' loop over servers: aggregated and seen after it.
MergeServers(servers, label, aggregated, seen) ==
  IF servers = <<>> THEN [aggregated |-> aggregated, seen |-> seen]
  ELSE LET key == SeenKey(Head(servers), label)
       IN IF key \notin seen
          THEN MergeServers(Tail(servers), label,
                            Append(aggregated, Head(servers)), seen \cup {key})
          ELSE MergeServers(Tail(servers), label, aggregated, seen)

\* findTokenForAccount / findClientIdentifier find an account of that label.
HasAccount(label) == \E k \in 1 .. Len(accounts) : accounts[k].label = label

\* findClientIdentifier(label), of a label that has an account: the
\* identifier of the first account of that label.
findClientIdentifier(label) ==
  LET k == CHOOSE k \in 1 .. Len(accounts) :
             /\ accounts[k].label = label
             /\ \A j \in 1 .. k - 1 : accounts[j].label # label
  IN accounts[k].clientIdentifier

\* Mutant of FuseLimit: the limit is not passed to fuse.search.
FuseNoLimit(ranked, maxResults) == ranked

\* fuse.search(trimmed, {limit: options.maxResults ?? 25}) on the ranking
\* the library computed.
FuseLimit(ranked, maxResults) ==
  LET limit == IF IsSome(maxResults) THEN maxResults[1] ELSE DefaultMaxResults
  IN IF Len(ranked) > limit THEN SubSeq(ranked, 1, limit) ELSE ranked

\* The library's ranking of users, by the behaviour chosen for this search.
FuseRank(users, fuse) ==
  CASE fuse = "none" -> <<>>
    [] fuse = "all" -> users
    [] OTHER -> [k \in 1 .. Len(users) |-> users[Len(users) + 1 - k]]

\* searchUsers after users = await getUsersAcrossServers(...)
SearchResult(f) ==
  IF Len(f.users) = 0 THEN EmptySearch
  ELSE LET results == FuseLimit(FuseRank(f.users, f.fuse), f.maxResults)
       IN [matches |-> results,
           totalMatched |-> Len(results),
           totalSearched |-> Len(f.users)]

\* Mutant of UseCached: a cached list is used only when it is not empty.
UseCachedNonEmpty(value, refresh) ==
  value # None /\ value[1] # <<>> /\ ~refresh

\* Mutant of UseCached: refresh is ignored.
UseCachedAlways(value, refresh) == value # None

\* The negation of getServers' and getUsersAcrossServers' test
\* (!servers || refresh): the value read from the cache is used.
UseCached(value, refresh) == value # None /\ ~refresh

\* Mutant of Finish: the call's promise is never settled.
FinishHangs(f) == [f EXCEPT !.pc = "hung"]

\* The top-level call returns.
Finish(f) == [f EXCEPT !.pc = "done"]

\* The top-level call throws.
Throw(f) == [f EXCEPT !.pc = "threw"]

\* Mutant of AfterUsers: the users are deduplicated across servers.
AfterUsersDeduped(f, sc, uc) ==
  LET g == [f EXCEPT !.users = Dedup(@)]
  IN IF g.op = "search"
     THEN Out(Finish([g EXCEPT !.search = SearchResult(g)]), sc, uc)
     ELSE Out(Finish(g), sc, uc)

\* getUsersAcrossServers returns users (to its caller, or to searchUsers).
AfterUsers(f, sc, uc) ==
  IF f.op = "search"
  THEN Out(Finish([f EXCEPT !.search = SearchResult(f)]), sc, uc)
  ELSE Out(Finish(f), sc, uc)

RECURSIVE RunServers(_, _, _, _)
\* getUsersAcrossServers' loop from server f.si on, at time t, up to the
\* next request it awaits.
RunServers(f, sc, uc, t) ==
  IF f.si > Len(f.aggregated) THEN AfterUsers(f, sc, uc)
  ELSE LET server == f.aggregated[f.si]
           key == UserKey(server)
           got == TTLGet(uc, key, t)
           g == [f EXCEPT !.uused = Append(@, UsedOfRead(uc, key, t))]
       IN IF ~UseCached(got.value, f.refresh)
          THEN IF ~HasAccount(server.accountLabel)
               THEN Out(Throw(g), sc, got.store)
               ELSE Out([g EXCEPT !.pc = "awaitLocal",
                                  !.results = <<>>,
                                  !.log = Append(@, Sent(Call("listLocal", f.si, 0, 0),
                                         findClientIdentifier(server.accountLabel)))],
                        sc, got.store)
          ELSE RunServers([g EXCEPT !.users = @ \o got.value[1],
                                    !.si = @ + 1],
                          sc, got.store, t)

\* Mutant of AfterServers: a refresh of the servers drops the users cached.
AfterServersDropsUsers(f, sc, uc, t) ==
  IF f.op = "getServers"
  THEN Out(Finish(f), sc, IF f.refresh THEN TTLClear(uc, None) ELSE uc)
  ELSE RunServers([f EXCEPT !.si = 1], sc, uc, t)

\* getServers returns aggregated (to its caller, or to getUsersAcrossServers).
AfterServers(f, sc, uc, t) ==
  IF f.op = "getServers" THEN Out(Finish(f), sc, uc)
  ELSE RunServers([f EXCEPT !.si = 1], sc, uc, t)

RECURSIVE RunAccounts(_, _, _, _)
\* getServers' loop from account f.i on, at time t, up to the next request
\* it awaits.
RunAccounts(f, sc, uc, t) ==
  IF f.i > Len(accounts) THEN AfterServers(f, sc, uc, t)
  ELSE LET account == accounts[f.i]
           key == ServerKey(account.label)
           got == TTLGet(sc, key, t)
           g == [f EXCEPT !.used = Append(@, UsedOfRead(sc, key, t))]
       IN IF ~UseCached(got.value, f.refresh)
          THEN Out([g EXCEPT !.pc = "awaitResources",
                             !.log = Append(@, Sent(Call("listResources", f.i, 0, 0),
                                         account.clientIdentifier))],
                   got.store, uc)
          ELSE LET m == MergeServers(got.value[1], account.label,
                                     f.aggregated, f.seen)
               IN RunAccounts([g EXCEPT !.aggregated = m.aggregated,
                                        !.seen = m.seen,
                                        !.i = @ + 1],
                              got.store, uc, t)

\* Mutant of FinishAccount: an empty list is not cached.
FinishAccountSkipsEmpty(f, sc, uc, t) ==
  LET account == accounts[f.i]
      key == ServerKey(account.label)
      store == IF f.connected = <<>> THEN sc
               ELSE TTLSet(sc, key, f.connected, t)
      m == MergeServers(f.connected, account.label, f.aggregated, f.seen)
  IN RunAccounts([f EXCEPT !.aggregated = m.aggregated,
                           !.seen = m.seen,
                           !.used[f.i].wrote = TRUE,
                           !.used[f.i].value = f.connected,
                           !.used[f.i].expiresAt =
                              IF key \in DOMAIN store THEN store[key].expiresAt
                              ELSE 0,
                           !.used[f.i].at = t,
                           !.resources = <<>>, !.ri = 0, !.ci = 0,
                           !.connected = <<>>,
                           !.i = @ + 1],
                 store, uc, t)

\* getServers after its loop over resources: the account's list is cached
\* and merged, and the loop over accounts goes on.
FinishAccount(f, sc, uc, t) ==
  LET account == accounts[f.i]
      key == ServerKey(account.label)
      store == TTLSet(sc, key, f.connected, t)
      m == MergeServers(f.connected, account.label, f.aggregated, f.seen)
  IN RunAccounts([f EXCEPT !.aggregated = m.aggregated,
                           !.seen = m.seen,
                           !.used[f.i].wrote = TRUE,
                           !.used[f.i].value = f.connected,
                           !.used[f.i].expiresAt = store[key].expiresAt,
                           !.used[f.i].at = t,
                           !.resources = <<>>, !.ri = 0, !.ci = 0,
                           !.connected = <<>>,
                           !.i = @ + 1],
                 store, uc, t)

RECURSIVE RunConnect(_, _, _, _)
\* getServers' loop over resources from f.ri on and connectToServer's loop
\* over connections from f.ci on, up to the next probe.
RunConnect(f, sc, uc, t) ==
  IF f.ri > Len(f.resources) THEN FinishAccount(f, sc, uc, t)
  ELSE LET n == NextProbe(f.resources[f.ri], f.ci)
       IN IF n = 0
          THEN RunConnect([f EXCEPT !.ri = @ + 1, !.ci = 1], sc, uc, t)
          ELSE Out([f EXCEPT !.pc = "awaitProbe",
                             !.ci = n,
                             !.log = Append(@, Sent(Call("probe", f.i, f.ri, n),
                                         accounts[f.i].clientIdentifier))],
                   sc, uc)

\* ---------------------------------------------------------------- actions

\* Caller c has no call in progress.
MayStart(c) == frames[c].pc \in {"idle", "done", "threw"}

\* The library behaviours a step of frame f may draw: the ranking matters
\* to searchUsers alone.
FuseFor(f) == IF f.op = "search" THEN FuseBehaviours ELSE {"none"}

\* The frame at rest: the ranking drawn for a step is not kept.
Settle(out) == [out EXCEPT !.f.fuse = "none"]

\* A new frame for caller c.
NewFrame(c, op) == [IdleFrame EXCEPT !.n = frames[c].n + 1, !.op = op]

Apply(c, out) ==
  /\ frames' = [frames EXCEPT ![c] = Settle(out).f]
  /\ serverCache' = out.sc
  /\ userCache' = out.uc

\* The entry a completed pass f of getServers went on with for account k
\* (the one it read, or the one it wrote) is in the server-list tier as it
\* was.
EntryKept(f, k) ==
  LET key == ServerKey(accounts[k].label)
  IN /\ key \in DOMAIN serverCache
     /\ serverCache[key].value = f.used[k].value
     /\ serverCache[key].expiresAt = f.used[k].expiresAt

\* That entry is within its TTL.
EntryFresh(f, k) == now <= f.used[k].expiresAt

\* How a call of getServers(false) follows the caller's previous call f:
\* "used" when f was a pass of getServers(false) and every entry it went on
\* with is kept and within its TTL, "written" when every entry is kept and
\* those f wrote are within their TTL, "no" otherwise.
Repeats(f) ==
  IF ~(f.op = "getServers" /\ f.pc = "done" /\ ~f.refresh) THEN "no"
  ELSE IF \A k \in 1 .. Len(accounts) : EntryKept(f, k) /\ EntryFresh(f, k)
  THEN "used"
  ELSE IF \A k \in 1 .. Len(accounts) :
            EntryKept(f, k) /\ (f.used[k].wrote => EntryFresh(f, k))
  THEN "written"
  ELSE "no"

\* How a call follows a clearing of the caches: "cleared" when the caller's
\* previous call f wrote entries of the server-list tier, "clearedBoth" when
\* it wrote entries of both tiers, and nothing is left in either tier; "no"
\* otherwise. Only clear() removes an entry that no get() found expired.
Cleared(f) ==
  IF ~(/\ f.pc = "done"
       /\ \E k \in 1 .. Len(f.used) : f.used[k].wrote
       /\ DOMAIN serverCache = {}
       /\ DOMAIN userCache = {}) THEN "no"
  ELSE IF \E s \in 1 .. Len(f.uused) : f.uused[s].wrote THEN "clearedBoth"
  ELSE "cleared"

\* How a call follows fetches that failed: "failed" when the caller's
\* previous call f wrote an account's server list after its listResources
\* call failed and the entry is in the cache as it was, within its TTL;
\* "failedBoth" when f also wrote a server's user list after both its
\* listings failed and that entry is kept within its TTL; "no" otherwise.
Failed(f) ==
  IF ~(/\ f.pc = "done"
       /\ \E k \in 1 .. Len(f.used) :
            /\ f.used[k].wrote
            /\ f.used[k].resp # None /\ ~f.used[k].resp[1].ok
            /\ EntryKept(f, k) /\ EntryFresh(f, k)) THEN "no"
  ELSE IF \E s \in 1 .. Len(f.uused) :
            LET u == f.uused[s]
                key == UserKey(f.aggregated[s])
            IN /\ u.wrote
               /\ u.resp # None /\ ~u.resp[1].ok
               /\ u.shared # None /\ ~u.shared[1].ok
               /\ key \in DOMAIN userCache
               /\ userCache[key].value = u.value
               /\ userCache[key].expiresAt = u.expiresAt
               /\ now <= u.expiresAt
  THEN "failedBoth"
  ELSE "failed"

\* manager.getServers(refresh)
GetServers(c, refresh) ==
  /\ MayStart(c)
  /\ started' = started + 1
  /\ Apply(c, RunAccounts([NewFrame(c, "getServers") EXCEPT
                             !.refresh = refresh, !.i = 1,
                             !.repeat = IF refresh THEN "no"
                                        ELSE IF Cleared(frames[c]) # "no"
                                        THEN Cleared(frames[c])
                                        ELSE Repeats(frames[c])],
                          serverCache, userCache, now))
  /\ UNCHANGED <<now, accounts>>
  /\ UNCHANGED alone

\* manager.getUsersAcrossServers(refresh)
GetUsersAcrossServers(c, refresh) ==
  /\ MayStart(c)
  /\ started' = started + 1
  /\ Apply(c, RunAccounts([NewFrame(c, "getUsers") EXCEPT
                             !.refresh = refresh, !.i = 1,
                             !.repeat = IF refresh THEN "no"
                                        ELSE IF Cleared(frames[c]) # "no"
                                        THEN Cleared(frames[c])
                                        ELSE Failed(frames[c])],
                          serverCache, userCache, now))
  /\ UNCHANGED <<now, accounts>>
  /\ UNCHANGED alone

\* Mutant of SearchStart: the query is tested after the aggregation.
SearchStartLate(f, sc, uc, t) ==
  LET out == RunAccounts([f EXCEPT !.i = 1], sc, uc, t)
  IN IF Trim(f.query) = <<>> /\ out.f.pc = "done"
     THEN Out(Finish([out.f EXCEPT !.search = EmptySearch]), out.sc, out.uc)
     ELSE out

\* searchUsers up to its first await.
SearchStart(f, sc, uc, t) ==
  IF Trim(f.query) = <<>>
  THEN Out(Finish([f EXCEPT !.search = EmptySearch]), sc, uc)
  ELSE RunAccounts([f EXCEPT !.i = 1], sc, uc, t)

\* manager.searchUsers(query, {maxResults, refresh})
SearchUsers(c, query, maxResults, refresh, fuse) ==
  /\ MayStart(c)
  /\ started' = started + 1
  /\ Apply(c, SearchStart([NewFrame(c, "search") EXCEPT
                             !.query = query, !.maxResults = maxResults,
                             !.refresh = refresh, !.fuse = fuse],
                          serverCache, userCache, now))
  /\ UNCHANGED <<now, accounts>>
  /\ UNCHANGED alone

\* Mutant of GetResources: the failure of the request is not caught.
GetResourcesNoCatch(resp) ==
  [threw |-> ~resp.ok, value |-> GetResourcesResult(resp)]

\* await getResources(...): whether it throws, and the resources it returns.
GetResources(resp) == [threw |-> FALSE, value |-> GetResourcesResult(resp)]

\* getResources answers: getServers goes on with the probes.
ResourcesResponse(c, token, resp, fuse) ==
  /\ frames[c].pc = "awaitResources"
  /\ accounts[frames[c].i].token = token
  /\ fuse \in FuseFor(frames[c])
  /\ LET f == [frames[c] EXCEPT !.fuse = fuse]
         g == [f EXCEPT !.used[f.i].resp = Some(resp),
                        !.log = Answered(@, IF resp.ok THEN "ok" ELSE "failed")]
         got == GetResources(resp)
     IN IF got.threw
        THEN Apply(c, Out(Throw(g), serverCache, userCache))
        ELSE Apply(c, RunConnect([g EXCEPT !.resources = got.value,
                                           !.ri = 1, !.ci = 1,
                                           !.connected = <<>>],
                                 serverCache, userCache, now))
  /\ UNCHANGED <<now, accounts, started>>
  /\ UNCHANGED alone

\* Mutant of ProbeAnswered: any response binds the server.
ProbeAnsweredAny(r) == r # "fail"

\* connectToServer's test of a probe's outcome (data?.MediaContainer).
ProbeAnswered(r) == r = "container"

\* Mutant of ProbeResponse: after an endpoint answered, the endpoints after
\* it are probed too.
ProbeResponseKeepsOn(c, r, fuse) ==
  /\ frames[c].pc = "awaitProbe"
  /\ fuse \in FuseFor(frames[c])
  /\ LET f == [frames[c] EXCEPT !.fuse = fuse]
         resource == f.resources[f.ri]
     IN IF ProbeAnswered(r)
        THEN Apply(c, RunConnect(
               [f EXCEPT !.connected =
                           Append(@, MakeServer(resource, resource.connections[f.ci],
                                                accounts[f.i].label)),
                         !.ci = @ + 1,
                         !.log = Answered(@, "ok")],
               serverCache, userCache, now))
        ELSE Apply(c, RunConnect(
               [f EXCEPT !.ci = @ + 1, !.log = Answered(@, "failed")],
               serverCache, userCache, now))
  /\ UNCHANGED <<now, accounts, started>>
  /\ UNCHANGED alone

\* A probe of connectToServer answers or fails.
ProbeResponse(c, r, fuse) ==
  /\ frames[c].pc = "awaitProbe"
  /\ fuse \in FuseFor(frames[c])
  /\ LET f == [frames[c] EXCEPT !.fuse = fuse]
         resource == f.resources[f.ri]
     IN IF ProbeAnswered(r)
        THEN Apply(c, RunConnect(
               [f EXCEPT !.connected =
                           Append(@, MakeServer(resource, resource.connections[f.ci],
                                                accounts[f.i].label)),
                         !.ri = @ + 1, !.ci = 1,
                         !.log = Answered(@, "ok")],
               serverCache, userCache, now))
        ELSE Apply(c, RunConnect(
               [f EXCEPT !.ci = @ + 1, !.log = Answered(@, "failed")],
               serverCache, userCache, now))
  /\ UNCHANGED <<now, accounts, started>>
  /\ UNCHANGED alone

\* The local accounts listing of fetchServerUsers answers: the shared
\* listing is requested.
LocalResponse(c, resp) ==
  /\ frames[c].pc = "awaitLocal"
  /\ LET f == frames[c]
         server == f.aggregated[f.si]
     IN frames' = [frames EXCEPT ![c] =
          [f EXCEPT !.pc = "awaitShared",
                    !.results = LocalRecords(resp, server),
                    !.uused[f.si].resp = Some(resp),
                    !.log = Append(Answered(@, IF resp.ok THEN "ok" ELSE "failed"),
                                   Sent(Call("listShared", f.si, 0, 0),
                                        findClientIdentifier(server.accountLabel)))]]
  /\ UNCHANGED <<now, accounts, started, serverCache, userCache>>
  /\ UNCHANGED alone

\* Mutant of SharedResponse: the shared records are merged ahead of the
\* local ones.
SharedResponseSharedFirst(c, resp, fuse) ==
  /\ frames[c].pc = "awaitShared"
  /\ fuse \in FuseFor(frames[c])
  /\ LET f == [frames[c] EXCEPT !.fuse = fuse]
         server == f.aggregated[f.si]
         cached == Dedup(SharedRecords(resp, server) \o f.results)
         store == TTLSet(userCache, UserKey(server), cached, now)
     IN Apply(c, RunServers(
          [f EXCEPT !.users = @ \o cached,
                    !.results = <<>>,
                    !.uused[f.si].shared = Some(resp),
                    !.uused[f.si].wrote = TRUE,
                    !.uused[f.si].value = cached,
                    !.uused[f.si].expiresAt = store[UserKey(server)].expiresAt,
                    !.uused[f.si].at = now,
                    !.log = Answered(@, IF resp.ok THEN "ok" ELSE "failed"),
                    !.si = @ + 1],
          serverCache, store, now))
  /\ UNCHANGED <<now, accounts, started>>
  /\ UNCHANGED alone

\* The shared listing of fetchServerUsers answers: the merged list is
\* cached and getUsersAcrossServers goes on.
SharedResponse(c, resp, fuse) ==
  /\ frames[c].pc = "awaitShared"
  /\ fuse \in FuseFor(frames[c])
  /\ LET f == [frames[c] EXCEPT !.fuse = fuse]
         server == f.aggregated[f.si]
         cached == Dedup(f.results \o SharedRecords(resp, server))
         store == TTLSet(userCache, UserKey(server), cached, now)
     IN Apply(c, RunServers(
          [f EXCEPT !.users = @ \o cached,
                    !.results = <<>>,
                    !.uused[f.si].shared = Some(resp),
                    !.uused[f.si].wrote = TRUE,
                    !.uused[f.si].value = cached,
                    !.uused[f.si].expiresAt = store[UserKey(server)].expiresAt,
                    !.uused[f.si].at = now,
                    !.log = Answered(@, IF resp.ok THEN "ok" ELSE "failed"),
                    !.si = @ + 1],
          serverCache, store, now))
  /\ UNCHANGED <<now, accounts, started>>
  /\ UNCHANGED alone

\* Mutant of ValidateToken: the failure of the request is not caught.
ValidateTokenNoCatch(resp) ==
  [threw |-> ~resp.ok, info |-> IF resp.ok THEN resp.user ELSE None]

\* await validateToken(...): whether it throws, and the user information it
\* returns (None for null).
ValidateToken(resp) ==
  [threw |-> FALSE, info |-> IF resp.ok THEN resp.user ELSE None]

\* The AccountValidationResult of an account.
ValidationResult(account, info) ==
  IF IsSome(info)
  THEN [label |-> account.label, valid |-> TRUE,
        username |-> Some(info[1].username), email |-> Some(info[1].email)]
  ELSE [label |-> account.label, valid |-> FALSE,
        username |-> None, email |-> None]

\* validateAccounts' loop at account f.i: the request is sent, or the
\* results are returned.
RunValidate(f) ==
  IF f.i > Len(accounts) THEN Finish(f)
  ELSE [f EXCEPT !.pc = "awaitValidate",
                 !.log = Append(@, Sent(Call("validate", f.i, 0, 0),
                                         accounts[f.i].clientIdentifier))]

\* manager.validateAccounts()
ValidateAccounts(c) ==
  /\ MayStart(c)
  /\ started' = started + 1
  /\ frames' = [frames EXCEPT ![c] =
                  RunValidate([NewFrame(c, "validate") EXCEPT !.i = 1])]
  /\ UNCHANGED <<now, accounts, serverCache, userCache>>
  /\ UNCHANGED alone

\* validateToken answers for account f.i.
ValidateResponse(c, resp) ==
  /\ frames[c].pc = "awaitValidate"
  /\ LET f == frames[c]
         got == ValidateToken(resp)
         g == [f EXCEPT !.log = Answered(@, IF resp.ok THEN "ok" ELSE "failed"),
                        !.used = Append(@, [Used("absent", <<>>, 0) EXCEPT
                                              !.resp = Some(resp)])]
     IN frames' = [frames EXCEPT ![c] =
          IF got.threw THEN Throw(g)
          ELSE RunValidate([g EXCEPT
                 !.validation = Append(@, ValidationResult(accounts[f.i], got.info)),
                 !.i = @ + 1])]
  /\ UNCHANGED <<now, accounts, started, serverCache, userCache>>
  /\ UNCHANGED alone

\* The client identifiers uuidv4() may draw.
Uuids == {"uuid-1"}

\* The client identifiers and PIN ids the PIN tools are called with.
ClientIdentifiers == {None, Some("dev-x")}

PinIds == {7}

\* Mutant of PinOf: a failure is swallowed and an empty PIN is returned.
PinOfSwallow(resp, identifier) ==
  [threw |-> FALSE,
   pin |-> IF resp.ok /\ resp.pin # None
           THEN Some([id |-> resp.pin[1].id, code |-> resp.pin[1].code,
                      clientIdentifier |-> identifier,
                      expiresAt |-> resp.pin[1].expiresAt,
                      authToken |-> resp.pin[1].authToken])
           ELSE Some([id |-> 0, code |-> "", clientIdentifier |-> identifier,
                      expiresAt |-> "", authToken |-> None])]

\* Mutant of PinOf: a PIN once seen with a credential is what the remote
\* service is taken to have issued, whatever it reports.
PinOfAuthorized(resp, identifier) ==
  IF ~resp.ok \/ resp.pin = None THEN [threw |-> TRUE, pin |-> None]
  ELSE [threw |-> FALSE,
        pin |-> Some([id |-> resp.pin[1].id, code |-> resp.pin[1].code,
                      clientIdentifier |-> identifier,
                      expiresAt |-> resp.pin[1].expiresAt,
                      authToken |-> Some("tok")])]

\* createAuthPin and checkAuthPin on the response: the request's failure,
\* or the TypeError of reading a body without pin, is logged and rethrown;
\* otherwise the PlexPin of the remote snapshot.
PinOf(resp, identifier) ==
  IF ~resp.ok \/ resp.pin = None THEN [threw |-> TRUE, pin |-> None]
  ELSE [threw |-> FALSE,
        pin |-> Some([id |-> resp.pin[1].id, code |-> resp.pin[1].code,
                      clientIdentifier |-> identifier,
                      expiresAt |-> resp.pin[1].expiresAt,
                      authToken |-> resp.pin[1].authToken])]

\* buildAuthUrl(pin): the fixed base and context, with the PIN's client
\* identifier and code.
buildAuthUrl(pin) == <<"https://app.plex.tv/auth", pin.clientIdentifier, pin.code>>

\* manager.generateAuthPin(clientIdentifier?)
GenerateAuthPin(c, clientIdentifier, uuid) ==
  /\ MayStart(c)
  /\ started' = started + 1
  /\ frames' = [frames EXCEPT ![c] =
       [NewFrame(c, "generateAuthPin") EXCEPT
          !.pc = "awaitCreatePin",
          !.identifier = IF IsSome(clientIdentifier) THEN clientIdentifier[1]
                         ELSE uuid,
          !.log = <<SentPin(Call("createPin", 0, 0, 0),
                            IF IsSome(clientIdentifier) THEN clientIdentifier[1]
                            ELSE uuid)>>]]
  /\ UNCHANGED <<now, accounts, serverCache, userCache>>
  /\ UNCHANGED alone

\* manager.checkAuthPinStatus(id, clientIdentifier)
CheckAuthPinStatus(c, id, clientIdentifier) ==
  /\ MayStart(c)
  /\ started' = started + 1
  /\ frames' = [frames EXCEPT ![c] =
       [NewFrame(c, "checkAuthPinStatus") EXCEPT
          !.pc = "awaitCheckPin",
          !.identifier = clientIdentifier,
          !.pinId = id,
          !.repeat = IF frames[c].op = "checkAuthPinStatus"
                        /\ frames[c].pin # None
                        /\ frames[c].pin[1].authToken # None
                     THEN "authorized" ELSE "no",
          !.log = <<SentPin(Call("pollPin", id, 0, 0), clientIdentifier)>>]]
  /\ UNCHANGED <<now, accounts, serverCache, userCache>>
  /\ UNCHANGED alone

\* The PIN endpoint answers createAuthPin or checkAuthPin.
PinResponse(c, resp) ==
  /\ frames[c].pc \in {"awaitCreatePin", "awaitCheckPin"}
  /\ LET f == frames[c]
         got == PinOf(resp, f.identifier)
         g == [f EXCEPT !.log = Answered(@, IF resp.ok THEN "ok" ELSE "failed"),
                        !.answer = IF resp.ok THEN resp.pin ELSE None]
     IN frames' = [frames EXCEPT ![c] =
          IF got.threw THEN Throw(g)
          ELSE Finish([g EXCEPT
                 !.pin = got.pin,
                 !.url = IF f.pc = "awaitCreatePin"
                         THEN Some(buildAuthUrl(got.pin[1])) ELSE None])]
  /\ UNCHANGED <<now, accounts, started, serverCache, userCache>>
  /\ UNCHANGED alone

\* Mutant of ClearCaches: the user tier is left as it is.
ClearCachesKeepsUsers ==
  /\ started' = started + 1
  /\ serverCache' = TTLClear(serverCache, None)
  /\ UNCHANGED <<now, accounts, frames, userCache>>
  /\ UNCHANGED alone

\* manager.clearCaches()
ClearCaches ==
  /\ started' = started + 1
  /\ serverCache' = TTLClear(serverCache, None)
  /\ userCache' = TTLClear(userCache, None)
  /\ UNCHANGED <<now, accounts, frames>>
  /\ UNCHANGED alone

\* Time passes.
Tick ==
  /\ now < MaxTime
  /\ now' = now + 1
  /\ UNCHANGED <<accounts, serverCache, userCache, frames, started>>
  /\ UNCHANGED alone

\* The manager as constructed.
Init ==
  /\ now = 0
  /\ accounts \in {ConstructAccounts(config) : config \in Configs}
  /\ serverCache = EmptyStore
  /\ userCache = EmptyStore
  /\ frames = [c \in Callers |-> IdleFrame]
  /\ started = 0
  /\ cacheStore = EmptyStore
  /\ lastGet = None
  /\ listing = None
  /\ fetched = None

\* A caller starts a call of the manager's public surface.
Start(c) ==
  \/ \E refresh \in BOOLEAN : GetServers(c, refresh)
  \/ \E refresh \in BOOLEAN : GetUsersAcrossServers(c, refresh)
  \/ \E query \in Queries, maxResults \in MaxResultsOptions,
        refresh \in BOOLEAN, fuse \in FuseBehaviours :
       SearchUsers(c, query, maxResults, refresh, fuse)
  \/ ValidateAccounts(c)
  \/ \E clientIdentifier \in ClientIdentifiers, uuid \in Uuids :
       GenerateAuthPin(c, clientIdentifier, uuid)
  \/ \E id \in PinIds, clientIdentifier \in {"dev-x"} :
       CheckAuthPinStatus(c, id, clientIdentifier)

\* The remote service answers a request of caller c.
Respond(c) ==
  \/ \E token \in Tokens, fuse \in FuseBehaviours :
       \E resp \in ResourceResponses(token) :
         ResourcesResponse(c, token, resp, fuse)
  \/ \E r \in ProbeResponses, fuse \in FuseBehaviours : ProbeResponse(c, r, fuse)
  \/ \E resp \in LocalResponses : LocalResponse(c, resp)
  \/ \E resp \in SharedResponses, fuse \in FuseBehaviours :
       SharedResponse(c, resp, fuse)
  \/ \E resp \in ValidateResponses : ValidateResponse(c, resp)
  \/ \E resp \in PinResponses : PinResponse(c, resp)

\* One caller's calls, one after the other, of every operation.
Next ==
  \/ started < MaxOps /\ Start("c1")
  \/ started < MaxOps /\ ClearCaches
  \/ Respond("c1")
  \/ Tick

Spec == Init /\ [][Next]_vars

\* Two callers' overlapping calls of getServers.
NextServers ==
  \/ started < MaxServerOps /\ \E c \in Callers, refresh \in BOOLEAN :
       GetServers(c, refresh)
  \/ started < MaxServerOps /\ ClearCaches
  \/ \E c \in Callers, token \in Tokens :
       \E resp \in ResourceResponses(token) :
         ResourcesResponse(c, token, resp, "none")
  \/ \E c \in Callers, r \in ProbeResponses : ProbeResponse(c, r, "none")
  \/ Tick

SpecServers == Init /\ [][NextServers]_vars

\* One caller's calls of getServers, one after the other.
NextRepeat ==
  \/ started < MaxRepeatOps /\ \E refresh \in BOOLEAN : GetServers("c1", refresh)
  \/ started < MaxRepeatOps /\ ClearCaches
  \/ \E token \in Tokens :
       \E resp \in ResourceResponses(token) :
         ResourcesResponse("c1", token, resp, "none")
  \/ \E r \in ProbeResponses : ProbeResponse("c1", r, "none")
  \/ Tick

SpecRepeat == Init /\ [][NextRepeat]_vars

\* One caller's calls of getServers(false) and getUsersAcrossServers(false)
\* and clearings of the caches.
NextClear ==
  \/ started < MaxClearOps /\ GetServers("c1", FALSE)
  \/ started < MaxClearOps /\ GetUsersAcrossServers("c1", FALSE)
  \/ started < MaxClearOps /\ ClearCaches
  \/ \E token \in Tokens :
       \E resp \in ResourceResponses(token) :
         ResourcesResponse("c1", token, resp, "none")
  \/ \E r \in ProbeResponses : ProbeResponse("c1", r, "none")
  \/ \E resp \in LocalResponses : LocalResponse("c1", resp)
  \/ \E resp \in SharedResponses : SharedResponse("c1", resp, "none")
  \/ Tick

SpecClear == Init /\ [][NextClear]_vars

\* One caller's calls of generateAuthPin and checkAuthPinStatus, one after
\* the other.
NextPin ==
  \/ started < MaxPinOps /\ \E clientIdentifier \in ClientIdentifiers,
                               uuid \in Uuids :
       GenerateAuthPin("c1", clientIdentifier, uuid)
  \/ started < MaxPinOps /\ \E id \in PinIds, clientIdentifier \in {"dev-x"} :
       CheckAuthPinStatus("c1", id, clientIdentifier)
  \/ \E resp \in PinResponses : PinResponse("c1", resp)
  \/ Tick

SpecPin == Init /\ [][NextPin]_vars

\* The remote service answers the request caller c's fan-out awaits: it
\* returns, or fails.
Answers(c) ==
  \/ \E token \in Tokens, fuse \in FuseBehaviours :
       \E resp \in ResourceResponses(token) :
         ResourcesResponse(c, token, resp, fuse)
  \/ \E r \in ProbeResponses, fuse \in FuseBehaviours : ProbeResponse(c, r, fuse)
  \/ \E resp \in LocalResponses : LocalResponse(c, resp)
  \/ \E resp \in SharedResponses, fuse \in FuseBehaviours :
       SharedResponse(c, resp, fuse)
  \/ \E resp \in ValidateResponses : ValidateResponse(c, resp)

\* One call by one caller of one of the four fan-out operations on a new
\* manager, whose caches are empty: refresh and clearCaches change nothing
\* there, and maxResults is left to its default.
NextLive ==
  \/ started < MaxLiveOps /\ GetServers("c1", FALSE)
  \/ started < MaxLiveOps /\ GetUsersAcrossServers("c1", FALSE)
  \/ started < MaxLiveOps /\ \E query \in Queries, fuse \in FuseBehaviours :
       SearchUsers("c1", query, None, FALSE, fuse)
  \/ started < MaxLiveOps /\ ValidateAccounts("c1")
  \/ Answers("c1")
  \/ Tick

\* Every request the caller awaits is answered in the end.
SpecLive == Init /\ [][NextLive]_vars /\ WF_vars(Answers("c1"))

\* ------------------------------------------- managers of many configurations

\* Accounts of the configuration file (config.accounts): client_identifier
\* is None when absent.
RawA == [label |-> "a", token |-> "ta", client_identifier |-> None]

RawAEmpty == [label |-> "a", token |-> "ta", client_identifier |-> Some("")]

RawAOther == [label |-> "a", token |-> "tb", client_identifier |-> None]

RawAExplicit == [label |-> "a", token |-> "ta", client_identifier |-> Some("dev-x")]

RawB == [label |-> "b", token |-> "tb", client_identifier |-> Some("dev-b")]

IdentityConfigs ==
  {<<RawA>>, <<RawAEmpty>>, <<RawAOther>>, <<RawAExplicit>>,
   <<RawA, RawB>>, <<RawB, RawA>>}

\* createServer's accountConfigs: client_identifier is copied when truthy.
accountConfigs(config) ==
  [i \in 1 .. Len(config) |->
     [label |-> config[i].label,
      token |-> config[i].token,
      clientIdentifier |->
        IF IsSome(config[i].client_identifier)
           /\ config[i].client_identifier[1] # ""
        THEN config[i].client_identifier ELSE None]]

\* createServer(config): the manager as constructed from a configuration.
InitIdentity ==
  /\ now = 0
  /\ accounts \in {ConstructAccounts(accountConfigs(config)) :
                     config \in IdentityConfigs}
  /\ serverCache = EmptyStore
  /\ userCache = EmptyStore
  /\ frames = [c \in Callers |-> IdleFrame]
  /\ started = 0
  /\ cacheStore = EmptyStore
  /\ lastGet = None
  /\ listing = None
  /\ fetched = None

\* One caller's calls of validateAccounts and getUsersAcrossServers(false).
NextIdentity ==
  \/ started < MaxIdentityOps /\ ValidateAccounts("c1")
  \/ started < MaxIdentityOps /\ GetUsersAcrossServers("c1", FALSE)
  \/ \E token \in Tokens :
       \E resp \in ResourceResponses(token) :
         ResourcesResponse("c1", token, resp, "none")
  \/ \E r \in ProbeResponses : ProbeResponse("c1", r, "none")
  \/ \E resp \in LocalResponses : LocalResponse("c1", resp)
  \/ \E resp \in SharedResponses : SharedResponse("c1", resp, "none")
  \/ \E resp \in ValidateResponses : ValidateResponse("c1", resp)
  \/ Tick

SpecIdentity == InitIdentity /\ [][NextIdentity]_vars

\* ------------------------------------------------- the cache on its own

CacheKeys == {"k1", "k2"}

CacheValues == {"v1", "v2"}

manager ==
  <<accounts, serverCache, userCache, frames, started, listing, fetched>>

\* cache.get(key)
CacheGet(key) ==
  /\ LET got == TTLGet(cacheStore, key, now)
     IN /\ cacheStore' = got.store
        /\ lastGet' = Some([key |-> key, at |-> now, value |-> got.value,
                            before |-> cacheStore, after |-> got.store])
  /\ UNCHANGED <<now, manager>>

\* cache.set(key, value)
CacheSet(key, value) ==
  /\ cacheStore' = TTLSet(cacheStore, key, value, now)
  /\ UNCHANGED <<now, lastGet, manager>>

\* cache.clear(key) and cache.clear()
CacheClear(key) ==
  /\ cacheStore' = TTLClear(cacheStore, key)
  /\ UNCHANGED <<now, lastGet, manager>>

NextCache ==
  \/ \E key \in CacheKeys : CacheGet(key)
  \/ \E key \in CacheKeys, value \in CacheValues : CacheSet(key, value)
  \/ \E key \in {None} \cup {Some(k) : k \in CacheKeys} : CacheClear(key)
  \/ Tick

SpecCache == Init /\ [][NextCache]_vars

\* ----------------------------------------- fetchServerUsers on its own

\* The longest listing of either path.
MaxNodes == 2

NodeEmail == [NoNode EXCEPT !.email = Some(<<"a">>), !.username = Some(<<"u", "1">>)]

NodeEmailUpper ==
  [NoNode EXCEPT !.Email = Some(<<"A">>), !.username = Some(<<"u", "2">>),
                 !.uuid = Some(<<"b">>)]

NodeUuid == [NoNode EXCEPT !.UUID = Some(<<"a">>), !.title = Some(<<"t">>)]

NodeUsername == [NoNode EXCEPT !.username = Some(<<"5">>)]

NodeId == [NoNode EXCEPT !.id = Some([n |-> 5, str |-> TRUE])]

NodeNoEmail ==
  [NoNode EXCEPT !.email = Some(<<>>), !.uuid = Some(<<"c">>)]

NodeNoName ==
  [NoNode EXCEPT !.name = Some(<<>>), !.id = Some([n |-> 0, str |-> FALSE])]

Nodes ==
  {NoNode, NodeEmail, NodeEmailUpper, NodeUuid, NodeUsername, NodeId,
   NodeNoEmail, NodeNoName}

\* The sequences over S of length n.
SeqsOfLen(S, n) == [1 .. n -> S]

SeqsUpTo(S, n) == UNION {SeqsOfLen(S, k) : k \in 0 .. n}

TheServer ==
  [machineIdentifier |-> <<"M", "1">>, uri |-> "u1", accountLabel |-> "a"]

\* The responses of the two listing paths: a failure, or up to MaxNodes
\* nodes (the shared ones as SharedUser children of one entry, or each as
\* an entry of its own).
ListingResponses ==
  LET lists == SeqsUpTo(Nodes, MaxNodes)
      locals == {[ok |-> FALSE, nodes |-> <<>>]}
                  \cup {[ok |-> TRUE, nodes |-> l] : l \in lists}
      shareds == {[ok |-> FALSE, entries |-> <<>>]}
                   \cup {[ok |-> TRUE,
                          entries |-> [i \in 1 .. Len(l) |->
                                         [attrs |-> l[i], SharedUser |-> <<>>]]] :
                         l \in lists}
                   \cup {[ok |-> TRUE,
                          entries |-> <<[attrs |-> NoNode, SharedUser |-> l]>>] :
                         l \in lists \ {<<>>}}
  IN {[local |-> lo, shared |-> sh] : lo \in locals, sh \in shareds}

\* fetchServerUsers(TheServer, ...) on the two responses.
FetchServerUsers(responses) ==
  /\ listing' = Some(responses)
  /\ LET results == LocalRecords(responses.local, TheServer)
                      \o SharedRecords(responses.shared, TheServer)
     IN fetched' = Some([results |-> results, returned |-> Dedup(results)])
  /\ UNCHANGED <<now, accounts, serverCache, userCache, frames, started,
                 cacheStore, lastGet>>

NextFetch ==
  /\ fetched = None
  /\ \E responses \in ListingResponses : FetchServerUsers(responses)

SpecFetch == Init /\ [][NextFetch]_vars

\* ----------------------------------------- searchUsers after aggregation

\* The most users getUsersAcrossServers returns to searchUsers.
MaxUsers == 26

\* n users of TheServer, each with an id of its own.
UsersOf(n) ==
  [i \in 1 .. n |->
     mapAccountNode([NoNode EXCEPT !.id = Some([n |-> i, str |-> TRUE])],
                    TheServer, TheServer.accountLabel)]

\* await this.getUsersAcrossServers(...) of searchUsers returns users: the
\* search goes on from there.
UsersReturned(c, users, maxResults, fuse) ==
  /\ MayStart(c)
  /\ started' = started + 1
  /\ Apply(c, AfterUsers([NewFrame(c, "search") EXCEPT
                            !.query = <<"a">>, !.maxResults = maxResults,
                            !.fuse = fuse, !.users = users],
                         serverCache, userCache))
  /\ UNCHANGED <<now, accounts>>
  /\ UNCHANGED alone

NextSearch ==
  /\ started < MaxOps
  /\ \E n \in 0 .. MaxUsers, maxResults \in MaxResultsOptions,
        fuse \in FuseBehaviours :
       UsersReturned("c1", UsersOf(n), maxResults, fuse)

SpecSearch == Init /\ [][NextSearch]_vars

\* ================================================================ claims

\* The calls of one kind a frame's log holds for index a.
CallsOf(f, kind, a) ==
  {j \in 1 .. Len(f.log) : f.log[j].kind = kind /\ f.log[j].a = a}

\* ---------------------------------------------------------------- C1

\* The step by which caller c1 starts a call of getServers(false) right
\* after a completed call of getServers(false).
SecondCall ==
  /\ frames["c1"].op = "getServers"
  /\ frames["c1"].pc = "done"
  /\ ~frames["c1"].refresh
  /\ frames'["c1"].n # frames["c1"].n
  /\ frames'["c1"].op = "getServers"
  /\ ~frames'["c1"].refresh

\* The second call completes at once from the cache: no upstream call, and
\* the first call's list.
ServedFromCache ==
  /\ frames'["c1"].pc = "done"
  /\ frames'["c1"].log = <<>>
  /\ frames'["c1"].aggregated = frames["c1"].aggregated

\* C1 as stated: when getServers(false) is called a second time while every
\* account's entry written by the first call is still within its TTL, the
\* second call issues no upstream call and returns the first call's list.
\* (Stated here for the case that no entry the first call went on with has
\* been removed or replaced since.)
C1Stated ==
  [][(/\ SecondCall
      /\ \A k \in 1 .. Len(accounts) :
           /\ EntryKept(frames["c1"], k)
           /\ frames["c1"].used[k].wrote => EntryFresh(frames["c1"], k))
     => ServedFromCache]_vars

\* C1 amended: when getServers(false) is called a second time while every
\* account's entry the first call went on with, written or read, is still
\* in the cache and within its TTL, the second call issues no upstream call
\* and returns, element for element and in order, the first call's list.
C1Idempotent ==
  [][(/\ SecondCall
      /\ \A k \in 1 .. Len(accounts) :
           EntryKept(frames["c1"], k) /\ EntryFresh(frames["c1"], k))
     => ServedFromCache]_vars

\* A second call served from the cache a first call filled with servers.
C1Witness ==
  /\ frames["c1"].op = "getServers"
  /\ frames["c1"].repeat = "used"
  /\ frames["c1"].pc = "done"
  /\ frames["c1"].log = <<>>
  /\ Len(frames["c1"].aggregated) > 1

\* ---------------------------------------------------------------- C2

\* The last get read an entry of its key whose expiry is earlier than the
\* time of the get.
ReadExpired(g) ==
  g.key \in DOMAIN g.before /\ g.before[g.key].expiresAt < g.at

\* C2: get(key) never returns a value whose stored expiry is earlier than
\* the current time; such an entry is reported as absent and removed from
\* the store by that get, and the entries of other keys are left as they
\* were, expired or not.
C2NoExpiredRead ==
  lastGet # None =>
    LET g == lastGet[1]
    IN /\ g.value # None =>
            /\ g.key \in DOMAIN g.before
            /\ g.before[g.key].expiresAt >= g.at
            /\ g.value = <<g.before[g.key].value>>
       /\ ReadExpired(g) => g.value = None /\ g.key \notin DOMAIN g.after
       /\ \A k \in CacheKeys \ {g.key} :
            /\ k \in DOMAIN g.before <=> k \in DOMAIN g.after
            /\ k \in DOMAIN g.before => g.after[k] = g.before[k]

\* A get of an expired entry, beside an expired entry of another key that
\* stays in the store.
C2Witness ==
  /\ lastGet # None
  /\ ReadExpired(lastGet[1])
  /\ \E k \in DOMAIN lastGet[1].after : lastGet[1].after[k].expiresAt < lastGet[1].at

\* ---------------------------------------------------------------- C3

\* The frames of passes of getServers(false).
ServerPasses ==
  {c \in Callers : frames[c].op = "getServers" /\ ~frames[c].refresh}

\* C3: in a pass of getServers(false), an account whose entry has passed
\* its TTL has the entry evicted and exactly one listResources call issued
\* for it, and once the pass completes the list built is in the cache with
\* expiry = time of write + TTL; an account whose entry is fresh has no
\* upstream call issued for it and nothing written.
C3ExpiredRefetched ==
  \A c \in ServerPasses :
    LET f == frames[c]
    IN \A k \in 1 .. Len(f.used) :
         /\ f.used[k].state = "expired" =>
              /\ Cardinality(CallsOf(f, "listResources", k)) = 1
              /\ f.pc = "done" => f.used[k].wrote
              /\ f.used[k].wrote =>
                   f.used[k].expiresAt = f.used[k].at + cacheTtlMs
         /\ f.used[k].state = "fresh" =>
              /\ \A j \in 1 .. Len(f.log) : f.log[j].a # k
              /\ ~f.used[k].wrote

\* A completed pass that found one account's entry expired and another's
\* fresh.
C3Witness ==
  \E c \in ServerPasses :
    /\ frames[c].pc = "done"
    /\ \E k \in 1 .. Len(frames[c].used) :
         frames[c].used[k].state = "expired" /\ frames[c].used[k].wrote
    /\ \E k \in 1 .. Len(frames[c].used) : frames[c].used[k].state = "fresh"

\* ---------------------------------------------------------------- C4

\* The completed calls of getServers(true) and getUsersAcrossServers(true).
RefreshPasses ==
  {c \in Callers : /\ frames[c].op \in {"getServers", "getUsers"}
                   /\ frames[c].refresh
                   /\ frames[c].pc = "done"}

\* The servers a pass bound for account k: one for each probe of its log
\* that answered.
ProbedFor(f, k) ==
  {j \in 1 .. Len(f.log) :
     f.log[j].kind = "probe" /\ f.log[j].a = k /\ f.log[j].res = "ok"}

\* C4: a completed getServers(true) or getUsersAcrossServers(true) has
\* issued one listResources call for every account, whatever the cache
\* held, has gone on with the list that response built and not with the
\* cached one, and has written it with expiry = time of write + TTL;
\* getUsersAcrossServers(true) has also issued one user fetch (the local and
\* the shared listing) for every server of the result and written each
\* server's users with a fresh expiry.
C4RefreshBypasses ==
  \A c \in RefreshPasses :
    LET f == frames[c]
    IN /\ Len(f.used) = Len(accounts)
       /\ \A k \in 1 .. Len(accounts) :
            /\ Cardinality(CallsOf(f, "listResources", k)) = 1
            /\ f.used[k].wrote
            /\ f.used[k].resp # None
            /\ ~f.used[k].resp[1].ok => f.used[k].value = <<>>
            /\ Len(f.used[k].value) = Cardinality(ProbedFor(f, k))
            /\ f.used[k].expiresAt = f.used[k].at + cacheTtlMs
       /\ \A s \in 1 .. Len(f.aggregated) :
            \E k \in 1 .. Len(accounts) :
              \E j \in 1 .. Len(f.used[k].value) :
                f.used[k].value[j] = f.aggregated[s]
       /\ f.op = "getUsers" =>
            /\ Len(f.uused) = Len(f.aggregated)
            /\ \A s \in 1 .. Len(f.aggregated) :
                 /\ Cardinality(CallsOf(f, "listLocal", s)) = 1
                 /\ Cardinality(CallsOf(f, "listShared", s)) = 1
                 /\ f.uused[s].wrote
                 /\ f.uused[s].expiresAt = f.uused[s].at + cacheTtlMs

\* A completed getUsersAcrossServers(true) that found a fresh entry in both
\* tiers, and whose server list is not the one the cache held.
C4Witness ==
  \E c \in RefreshPasses :
    /\ frames[c].op = "getUsers"
    /\ \E k \in 1 .. Len(frames[c].used) : frames[c].used[k].state = "fresh"
    /\ \E s \in 1 .. Len(frames[c].uused) : frames[c].uused[s].state = "fresh"

\* ---------------------------------------------------------------- C5

\* The canonical identity key of a record: its email if it has one (an
\* empty email is one), else its uuid, else its server's identity and its
\* username if that is not empty, else its server's identity and its
\* numeric id (or "unknown"), in lower case.
IdentityKey(user) ==
  ToLowerCase(
    IF user.email # None THEN user.email[1]
    ELSE IF user.uuid # None THEN user.uuid[1]
    ELSE IF user.username # None /\ Len(user.username[1]) > 0
    THEN user.serverIdentifier \o <<"-">> \o user.username[1]
    ELSE IF user.id # None
    THEN user.serverIdentifier \o <<"-">> \o NumStr(user.id[1])
    ELSE user.serverIdentifier \o <<"-">> \o Unknown)

\* C5: the list fetchServerUsers returns holds no two records of the same
\* canonical identity key; each record of it is, whole and unchanged, the
\* first record of the listings with its key; and every key of the
\* listings has its record.
C5FirstSeenWins ==
  fetched # None =>
    LET results == fetched[1].results
        returned == fetched[1].returned
    IN /\ \A i, j \in 1 .. Len(returned) :
            i # j => IdentityKey(returned[i]) # IdentityKey(returned[j])
       /\ \A i \in 1 .. Len(returned) :
            \E p \in 1 .. Len(results) :
              /\ results[p] = returned[i]
              /\ \A q \in 1 .. p - 1 :
                   IdentityKey(results[q]) # IdentityKey(returned[i])
       /\ \A p \in 1 .. Len(results) :
            \E i \in 1 .. Len(returned) :
              IdentityKey(returned[i]) = IdentityKey(results[p])

\* Two records whose emails differ in case only, the first from the local
\* listing and the second from the shared one: the first is returned.
C5Witness ==
  /\ fetched # None
  /\ listing[1].local.ok /\ listing[1].shared.ok
  /\ \E p, q \in 1 .. Len(fetched[1].results) :
       /\ p <= Len(listing[1].local.nodes) /\ Len(listing[1].local.nodes) < q
       /\ fetched[1].results[p].email # fetched[1].results[q].email
       /\ fetched[1].results[p].email # None
       /\ IdentityKey(fetched[1].results[p]) = IdentityKey(fetched[1].results[q])
       /\ \E i \in 1 .. Len(fetched[1].returned) :
            fetched[1].returned[i] = fetched[1].results[p]
  /\ Len(fetched[1].returned) < Len(fetched[1].results)

\* ---------------------------------------------------------------- C6

RECURSIVE ListsOf(_, _)
\* The lists a pass went on with for its first k accounts (or servers), one
\* after the other.
ListsOf(used, k) ==
  IF k = 0 THEN <<>> ELSE ListsOf(used, k - 1) \o used[k].value

\* The (machineIdentity, accountLabel) pair of a server.
Pair(server) == <<server.machineIdentifier, server.accountLabel>>

\* The positions of all whose pair no earlier position holds.
FirstSeen(all) ==
  {p \in 1 .. Len(all) : \A q \in 1 .. p - 1 : Pair(all[q]) # Pair(all[p])}

\* list is all restricted to its first-seen positions, in order.
IsFirstSeenOf(list, all) ==
  /\ Len(list) = Cardinality(FirstSeen(all))
  /\ \A p \in FirstSeen(all) :
       list[Cardinality({q \in FirstSeen(all) : q <= p})] = all[p]

\* The completed calls of getServers.
ServerResults ==
  {c \in Callers : frames[c].op = "getServers" /\ frames[c].pc = "done"}

\* C6: the list getServers returns holds no two entries of the same
\* (machineIdentity, accountLabel) pair, and is the accounts' server lists,
\* in account order and each in its own order, with every entry dropped
\* whose pair an earlier entry holds: one machine twice in an account's
\* list is one entry, the first, and one machine in two accounts' lists is
\* two entries.
C6UniquePairs ==
  \A c \in ServerResults :
    LET f == frames[c]
    IN /\ \A i, j \in 1 .. Len(f.aggregated) :
            i # j => Pair(f.aggregated[i]) # Pair(f.aggregated[j])
       /\ IsFirstSeenOf(f.aggregated, ListsOf(f.used, Len(accounts)))

\* A result with one machine under two accounts, from a pass whose first
\* account's list held that machine twice.
C6Witness ==
  \E c \in ServerResults :
    LET f == frames[c]
    IN /\ \E i, j \in 1 .. Len(f.aggregated) :
            /\ f.aggregated[i].machineIdentifier = f.aggregated[j].machineIdentifier
            /\ f.aggregated[i].accountLabel # f.aggregated[j].accountLabel
       /\ \E i, j \in 1 .. Len(f.used[1].value) :
            i # j /\ Pair(f.used[1].value[i]) = Pair(f.used[1].value[j])

\* ---------------------------------------------------------------- C7

\* The calls of getServers and getUsersAcrossServers.
Aggregations ==
  {c \in Callers : frames[c].op \in {"getServers", "getUsers"}}

\* The media servers of a listing, none when the listing failed.
Listed(resp) ==
  IF resp.ok
  THEN FilterSeq(resp.devices,
                 {d \in SeqToSet(resp.devices) : d.product = PlexMediaServer})
  ELSE <<>>

\* The server a probe that answered binds: the resource and the endpoint
\* the call names.
Bound(f, j) ==
  LET device == Listed(f.used[f.log[j].a].resp[1])[f.log[j].b]
  IN [machineIdentifier |-> device.clientIdentifier,
      uri |-> device.connections[f.log[j].c].uri,
      accountLabel |-> accounts[f.log[j].a].label]

\* list is the servers of the probes of account k that answered, in the
\* order of the calls.
IsBoundFor(list, f, k) ==
  /\ Len(list) = Cardinality(ProbedFor(f, k))
  /\ \A j \in ProbedFor(f, k) :
       list[Cardinality({i \in ProbedFor(f, k) : i <= j})] = Bound(f, j)

\* A listing of users as the call heard it: a failed one as an empty one.
HeardLocal(resp) == IF resp.ok THEN resp ELSE [ok |-> TRUE, nodes |-> <<>>]

HeardShared(resp) == IF resp.ok THEN resp ELSE [ok |-> TRUE, entries |-> <<>>]

\* C7: no call of getServers or getUsersAcrossServers throws, whatever
\* listing or probe fails; a completed call's server list is made of the
\* servers of the probes that answered (none for an account whose discovery
\* failed or a resource whose probes all failed) and of the cached lists,
\* and its users are, server by server, what the listings that answered
\* gave, a failed listing counting as an empty one.
C7FailuresIsolated ==
  \A c \in Aggregations :
    LET f == frames[c]
    IN /\ f.pc # "threw"
       /\ f.pc = "done" =>
            /\ Len(f.used) = Len(accounts)
            /\ \A k \in 1 .. Len(accounts) :
                 f.used[k].wrote => IsBoundFor(f.used[k].value, f, k)
            /\ IsFirstSeenOf(f.aggregated, ListsOf(f.used, Len(accounts)))
            /\ f.op = "getUsers" =>
                 /\ Len(f.uused) = Len(f.aggregated)
                 /\ \A s \in 1 .. Len(f.aggregated) :
                      f.uused[s].wrote =>
                        f.uused[s].value =
                          Dedup(LocalRecords(HeardLocal(f.uused[s].resp[1]),
                                             f.aggregated[s])
                                \o SharedRecords(HeardShared(f.uused[s].shared[1]),
                                                 f.aggregated[s]))
                 /\ f.users = ListsOf(f.uused, Len(f.aggregated))

\* A completed getUsersAcrossServers with users, in which the discovery of
\* one account failed, every probe of one resource failed and the local
\* listing of one server failed.
C7Witness ==
  \E c \in Aggregations :
    LET f == frames[c]
        failed == {j \in 1 .. Len(f.log) : f.log[j].res = "failed"}
    IN /\ f.op = "getUsers"
       /\ f.pc = "done"
       /\ Len(f.users) > 0
       /\ \E j \in failed : f.log[j].kind = "listResources"
       /\ \E j \in failed : f.log[j].kind = "listLocal"
       /\ \E j \in failed :
            /\ f.log[j].kind = "probe"
            /\ \A i \in 1 .. Len(f.log) :
                 (/\ f.log[i].kind = "probe"
                  /\ f.log[i].a = f.log[j].a
                  /\ f.log[i].b = f.log[j].b) => i \in failed

\* ---------------------------------------------------------------- C8

\* The calls of validateAccounts.
Validations == {c \in Callers : frames[c].op = "validate"}

\* C8: validateAccounts never throws; it validates the accounts one by one
\* in order, a failed validation not stopping the next; the results so far
\* are one per account validated, in order, each with its account's label
\* and valid exactly when the validation answered with user information;
\* the completed call has a result for every account.
C8OneResultPerAccount ==
  \A c \in Validations :
    LET f == frames[c]
    IN /\ f.pc # "threw"
       /\ Len(f.validation) = Len(f.used)
       /\ f.pc = "done" => Len(f.validation) = Len(accounts)
       /\ \A k \in 1 .. Len(f.validation) :
            /\ f.validation[k].label = accounts[k].label
            /\ Cardinality(CallsOf(f, "validate", k)) = 1
            /\ f.validation[k].valid <=>
                 (f.used[k].resp[1].ok /\ f.used[k].resp[1].user # None)

\* A completed validateAccounts whose first account's validation failed
\* and whose second account is valid.
C8Witness ==
  \E c \in Validations :
    /\ frames[c].pc = "done"
    /\ Len(frames[c].validation) = 2
    /\ ~frames[c].used[1].resp[1].ok
    /\ ~frames[c].validation[1].valid
    /\ frames[c].validation[2].valid

\* ---------------------------------------------------------------- C9

PinOps == {"generateAuthPin", "checkAuthPinStatus"}

\* C9: every step of a call of generateAuthPin or checkAuthPinStatus leaves
\* both cache tiers as they were; the call makes one remote call, and when
\* that call fails the operation throws and returns neither PIN nor URL.
C9OneCallNoCache ==
  [][(frames'["c1"] # frames["c1"] /\ frames'["c1"].op \in PinOps) =>
       /\ serverCache' = serverCache
       /\ userCache' = userCache
       /\ Len(frames'["c1"].log) = 1
       /\ frames'["c1"].log[1].kind
            = (IF frames'["c1"].op = "generateAuthPin" THEN "createPin"
               ELSE "pollPin")
       /\ frames'["c1"].log[1].res = "failed" =>
            /\ frames'["c1"].pc = "threw"
            /\ frames'["c1"].pin = None
            /\ frames'["c1"].url = None]_vars

\* A generateAuthPin whose remote call failed, beside caches that hold
\* entries.
C9Witness ==
  /\ frames["c1"].op = "generateAuthPin"
  /\ frames["c1"].pc = "threw"
  /\ frames["c1"].log[1].res = "failed"
  /\ DOMAIN serverCache # {}
  /\ DOMAIN userCache # {}

\* --------------------------------------------------------------- C10

\* The query holds white space only.
Blank(query) == \A p \in 1 .. Len(query) : query[p] \in {" ", "\t", "\n", "\r"}

\* C10: a call of searchUsers with a blank query returns at once
\* {matches: [], totalMatched: 0, totalSearched: 0}, with no upstream call
\* and no read of either tier, and leaves both tiers as they were, whatever
\* refresh is and whatever they hold.
C10BlankQuery ==
  [][(/\ frames'["c1"].n # frames["c1"].n
      /\ frames'["c1"].op = "search"
      /\ Blank(frames'["c1"].query)) =>
       /\ frames'["c1"].pc = "done"
       /\ frames'["c1"].search
            = [matches |-> <<>>, totalMatched |-> 0, totalSearched |-> 0]
       /\ frames'["c1"].log = <<>>
       /\ frames'["c1"].used = <<>>
       /\ frames'["c1"].uused = <<>>
       /\ serverCache' = serverCache
       /\ userCache' = userCache]_vars

\* A blank search with refresh, beside a tier that holds an expired entry.
C10Witness ==
  /\ frames["c1"].op = "search"
  /\ Blank(frames["c1"].query)
  /\ frames["c1"].refresh
  /\ frames["c1"].pc = "done"
  /\ \E key \in DOMAIN serverCache : serverCache[key].expiresAt < now

\* --------------------------------------------------------------- C11

\* The completed calls of searchUsers with a query that is not blank.
Searches ==
  {c \in Callers : /\ frames[c].op = "search"
                   /\ frames[c].pc = "done"
                   /\ ~Blank(frames[c].query)}

\* C11: the result of searchUsers for a query that is not blank has
\* totalMatched = the number of matches <= maxResults (25 when it is not
\* given), every match a record of the aggregated users, totalSearched =
\* the number of aggregated users, and is {matches: [], totalMatched: 0,
\* totalSearched: 0} when no user is aggregated.
C11ResultBounded ==
  \A c \in Searches :
    LET f == frames[c]
        r == f.search
    IN /\ r.totalMatched = Len(r.matches)
       /\ r.totalMatched <= (IF f.maxResults = None THEN 25 ELSE f.maxResults[1])
       /\ \A i \in 1 .. Len(r.matches) :
            \E j \in 1 .. Len(f.users) : f.users[j] = r.matches[i]
       /\ r.totalSearched = Len(f.users)
       /\ Len(f.users) = 0 => Len(r.matches) = 0

\* A search over more than 25 users that returns 25 of them, no limit
\* given.
C11Witness ==
  \E c \in Searches :
    /\ frames[c].maxResults = None
    /\ frames[c].search.totalSearched > 25
    /\ frames[c].search.totalMatched = 25

\* --------------------------------------------------------------- C12

\* The completed calls of getUsersAcrossServers.
UserResults ==
  {c \in Callers : frames[c].op = "getUsers" /\ frames[c].pc = "done"}

\* The positions of users that hold a record of identity key k.
Holding(users, k) == {p \in 1 .. Len(users) : IdentityKey(users[p]) = k}

RECURSIVE HeldBy(_, _, _)
\* How many records of identity key k the lists of the first s servers
\* hold, all together.
HeldBy(uused, s, k) ==
  IF s = 0 THEN 0
  ELSE HeldBy(uused, s - 1, k) + Cardinality(Holding(uused[s].value, k))

\* C12: getUsersAcrossServers returns its servers' user lists one after
\* the other, in the order of the servers, nothing dropped: a record whose
\* identity key is on several servers' lists is returned once for each.
C12Concatenated ==
  \A c \in UserResults :
    LET f == frames[c]
    IN /\ Len(f.uused) = Len(f.aggregated)
       /\ f.users = ListsOf(f.uused, Len(f.aggregated))
       /\ \A p \in 1 .. Len(f.users) :
            Cardinality(Holding(f.users, IdentityKey(f.users[p])))
              = HeldBy(f.uused, Len(f.aggregated), IdentityKey(f.users[p]))

\* A result that holds one identity key twice, once for each of two
\* servers.
C12Witness ==
  \E c \in UserResults :
    LET f == frames[c]
    IN \E p, q \in 1 .. Len(f.users) :
         /\ p < q
         /\ IdentityKey(f.users[p]) = IdentityKey(f.users[q])
         /\ f.users[p].accountLabel # f.users[q].accountLabel
         /\ \E s \in 1 .. Len(f.aggregated) :
              Cardinality(Holding(f.uused[s].value, IdentityKey(f.users[p]))) = 1

\* --------------------------------------------------------------- C13

\* The probes a frame's log holds for resource b of account k.
ProbesOf(f, k, b) == {j \in CallsOf(f, "probe", k) : f.log[j].b = b}

\* The endpoints of a device that have a uri, by their position.
Endpoints(device) ==
  {n \in 1 .. Len(device.connections) : device.connections[n].uri # ""}

\* The probes of resource b of account k are over: one answered, or every
\* endpoint failed.
Probed(f, k, b, device) ==
  \/ \E j \in ProbesOf(f, k, b) : f.log[j].res = "ok"
  \/ /\ Cardinality(ProbesOf(f, k, b)) = Cardinality(Endpoints(device))
     /\ \A j \in ProbesOf(f, k, b) : f.log[j].res = "failed"

\* C13: the endpoints of a resource are probed one at a time in their
\* listed order; no endpoint is probed after one that answered, to which
\* the server is bound; a resource whose endpoints all failed gives no
\* server, and the resources after it are probed all the same.
C13FirstAnswerBinds ==
  \A c \in Callers :
    LET f == frames[c]
    IN \A k \in 1 .. Len(f.used) :
         (f.op \in {"getServers", "getUsers", "search"} /\ f.used[k].resp # None) =>
           LET devices == Listed(f.used[k].resp[1])
           IN /\ \A j \in CallsOf(f, "probe", k) : f.log[j].b \in 1 .. Len(devices)
              /\ \A b \in 1 .. Len(devices) :
                   /\ \A j \in ProbesOf(f, k, b) :
                        /\ f.log[j].c \in Endpoints(devices[b])
                        /\ Cardinality({n \in Endpoints(devices[b]) : n <= f.log[j].c})
                             = Cardinality({i \in ProbesOf(f, k, b) : i <= j})
                        /\ f.log[j].res # "failed" =>
                             \A i \in ProbesOf(f, k, b) : i <= j
                        /\ \A i \in 1 .. Len(f.log) :
                             (i < j /\ f.log[i].kind = "probe" /\ f.log[i].a = k
                                /\ f.log[i].b < b) =>
                               Probed(f, k, f.log[i].b, devices[f.log[i].b])
                   /\ f.used[k].wrote => Probed(f, k, b, devices[b])
              /\ f.used[k].wrote => IsBoundFor(f.used[k].value, f, k)

\* An account's list with one server, bound to the only endpoint of its
\* second resource after both endpoints of its first resource failed.
C13Witness ==
  \E c \in Callers :
    LET f == frames[c]
    IN /\ f.pc = "done"
       /\ Len(f.used) > 0
       /\ f.used[1].wrote
       /\ Len(f.used[1].value) = 1
       /\ Cardinality(ProbesOf(f, 1, 1)) = 2
       /\ \A j \in ProbesOf(f, 1, 1) : f.log[j].res = "failed"
       /\ \E j \in ProbesOf(f, 1, 2) : f.log[j].res = "ok"

\* --------------------------------------------------------------- C14

\* C14: no step of a call of getServers, whatever refresh is, reads the
\* user-list tier or changes it: every entry of it stays, with its value
\* and its expiry.
C14TiersIndependent ==
  [][(frames'["c1"] # frames["c1"] /\ frames'["c1"].op = "getServers") =>
       /\ userCache' = userCache
       /\ frames'["c1"].uused = <<>>]_vars

\* A completed getServers that found an account's server list expired,
\* beside a list of users of a server of that account that is still within
\* its TTL.
C14Witness ==
  /\ frames["c1"].op = "getServers"
  /\ frames["c1"].pc = "done"
  /\ \E k \in 1 .. Len(frames["c1"].used) :
       /\ frames["c1"].used[k].state = "expired"
       /\ \E key \in DOMAIN userCache :
            /\ key[3] = accounts[k].label
            /\ now <= userCache[key].expiresAt

\* ---------------------------------------------------------------- C15

\* What clear() and clear(key) are to leave of a store.
ClearsAsStated(store) ==
  /\ DOMAIN TTLClear(store, None) = {}
  /\ \A key \in DOMAIN store :
       LET left == TTLClear(store, Some(key))
       IN /\ DOMAIN left = DOMAIN store \ {key}
          /\ \A other \in DOMAIN left : left[other] = store[other]

\* The calls of getServers(false) and getUsersAcrossServers(false) that are
\* the caller's next call after the caches were cleared.
NextAfterClear ==
  {c \in Callers : frames[c].repeat \in {"cleared", "clearedBoth"}}

\* A call after the clearing finds no entry, and by its end has issued one
\* listResources call for every account and, in getUsersAcrossServers, one
\* call of each users endpoint for every server.
RefetchesAll(f) ==
  /\ \A k \in 1 .. Len(f.used) : f.used[k].state = "absent"
  /\ \A s \in 1 .. Len(f.uused) : f.uused[s].state = "absent"
  /\ f.pc = "done" =>
       /\ Len(f.used) = Len(accounts)
       /\ \A k \in 1 .. Len(accounts) :
            Cardinality(CallsOf(f, "listResources", k)) = 1
       /\ f.op = "getUsers" =>
            /\ Len(f.uused) = Len(f.aggregated)
            /\ \A s \in 1 .. Len(f.aggregated) :
                 /\ Cardinality(CallsOf(f, "listLocal", s)) = 1
                 /\ Cardinality(CallsOf(f, "listShared", s)) = 1

\* C15: clear() leaves a store empty and clear(key) removes that key's
\* entry and no other; a step of clearCaches() leaves both tiers empty; and
\* the next getServers(false) issues a listResources call for every account,
\* the next getUsersAcrossServers(false) a user fetch for every server,
\* however recently the entries were written.
C15ClearRefetches ==
  [][/\ ClearsAsStated(serverCache) /\ ClearsAsStated(userCache)
     /\ (started' = started + 1 /\ frames' = frames) =>
          (DOMAIN serverCache' = {} /\ DOMAIN userCache' = {})
     /\ \A c \in NextAfterClear' : RefetchesAll(frames'[c])]_vars

\* A completed getUsersAcrossServers(false) that follows a clearing of
\* entries of both tiers written at this very time, with two accounts and a
\* server.
C15Witness ==
  /\ "c1" \in NextAfterClear
  /\ frames["c1"].repeat = "clearedBoth"
  /\ frames["c1"].op = "getUsers" /\ frames["c1"].pc = "done"
  /\ Len(accounts) = 2 /\ Len(frames["c1"].aggregated) >= 1
  /\ now = 0

\* ---------------------------------------------------------------- C16

\* The Pin that relays the snapshot the remote service answered to a call
\* made with the client identifier given.
Relayed(snapshot, identifier) ==
  [id |-> snapshot.id, code |-> snapshot.code, clientIdentifier |-> identifier,
   expiresAt |-> snapshot.expiresAt, authToken |-> snapshot.authToken]

\* The calls of generateAuthPin and checkAuthPinStatus that returned.
PinReturns ==
  {c \in Callers : /\ frames[c].op \in {"generateAuthPin", "checkAuthPinStatus"}
                   /\ frames[c].pc = "done"}

\* C16: the Pin every generateAuthPin and checkAuthPinStatus returns is the
\* snapshot the remote service answered to that very call (id, code,
\* expiresAt, and authToken, null exactly when the remote reports none),
\* whatever the caller's earlier polls returned and whatever the time is;
\* and no step of these calls changes anything the manager keeps.
C16PinRelayed ==
  [][/\ \A c \in PinReturns' :
          /\ frames'[c].answer # None
          /\ frames'[c].pin =
               Some(Relayed(frames'[c].answer[1], frames'[c].identifier))
     /\ \A c \in Callers :
          (/\ frames'[c] # frames[c]
           /\ frames'[c].op \in {"generateAuthPin", "checkAuthPinStatus"}) =>
            /\ accounts' = accounts
            /\ serverCache' = serverCache
            /\ userCache' = userCache]_vars

\* A poll that returned a Pin without credential right after a poll that
\* returned one with a credential.
C16Witness ==
  /\ "c1" \in PinReturns
  /\ frames["c1"].op = "checkAuthPinStatus"
  /\ frames["c1"].repeat = "authorized"
  /\ frames["c1"].pin[1].authToken = None

\* ---------------------------------------------------------------- C17

\* The kinds of upstream call made for an account, and for a server.
AccountCalls == {"listResources", "probe", "validate"}

ServerCalls == {"listLocal", "listShared"}

\* The log of frame f is that of a sequential fan-out: no call but the last
\* issued is in flight, none is once the call is over, and the calls for
\* accounts, and then those for servers, are in the order of their index.
Sequential(f) ==
  /\ \A j \in 1 .. Len(f.log) - 1 : f.log[j].res # "pending"
  /\ f.pc \in {"idle", "done", "threw"} =>
       \A j \in 1 .. Len(f.log) : f.log[j].res # "pending"
  /\ \A j1, j2 \in 1 .. Len(f.log) :
       j1 < j2 =>
         /\ (f.log[j1].kind \in AccountCalls /\ f.log[j2].kind \in AccountCalls)
              => f.log[j1].a <= f.log[j2].a
         /\ (f.log[j1].kind \in ServerCalls /\ f.log[j2].kind \in ServerCalls)
              => f.log[j1].a <= f.log[j2].a
         /\ f.log[j1].kind \in ServerCalls => f.log[j2].kind \in ServerCalls

\* C17: within one top-level call at most one upstream call is in flight,
\* every call for account i (listing and probes) has completed before the
\* first call for account i+1 is issued, and every users call for server j
\* has completed before the first one for server j+1 is issued.
C17Sequential == \A c \in Callers : Sequential(frames[c])

\* A call with two upstream calls or more for each of two accounts and
\* users calls for each of two servers, the last of them in flight.
C17Witness ==
  LET f == frames["c1"]
  IN /\ \A k \in 1 .. 2 : Cardinality(CallsOf(f, "probe", k)) >= 1
     /\ CallsOf(f, "listLocal", 1) # {}
     /\ CallsOf(f, "listShared", 2) # {}
     /\ f.log[Len(f.log)].res = "pending"

\* ---------------------------------------------------------------- C18

\* Pass c of getServers(false) read account k's entry as a miss.
Missed(c, k) ==
  /\ c \in ServerPasses
  /\ k <= Len(frames[c].used)
  /\ frames[c].used[k].state \in {"absent", "expired"}

\* The step by which call c writes account k's server list.
Writes(c, k) ==
  /\ frames'[c].n = frames[c].n
  /\ k <= Len(frames[c].used)
  /\ ~frames[c].used[k].wrote
  /\ frames'[c].used[k].wrote

\* C18: a pass of getServers(false) that read an account's entry as a miss
\* issues a listResources call of its own for that account, whatever call
\* another caller has in flight for it; every write of a pass succeeds; and
\* the entry a write leaves is the one it wrote, whatever entry another
\* caller wrote before: the last write wins.
C18NoSingleFlight ==
  [][\A c \in Callers : \A k \in 1 .. Len(accounts) :
       /\ Missed(c, k)' =>
            Cardinality(CallsOf(frames'[c], "listResources", k)) = 1
       /\ Writes(c, k) =>
            LET key == ServerKey(accounts[k].label)
            IN /\ key \in DOMAIN serverCache'
               /\ serverCache'[key].value = frames'[c].used[k].value
               /\ serverCache'[key].expiresAt = now + cacheTtlMs]_vars

\* Two first calls of getServers(false), with no clearing of the caches,
\* both read the first account's entry as absent, so before either wrote
\* it; each issued its call, both wrote, lists that differ, and the entry
\* left is the list of c2 and not that of c1.
C18Witness ==
  /\ started = 2
  /\ \A c \in Callers :
       /\ frames[c].n = 1 /\ frames[c].pc = "done"
       /\ Missed(c, 1) /\ frames[c].used[1].state = "absent"
       /\ frames[c].used[1].wrote
       /\ CallsOf(frames[c], "listResources", 1) # {}
  /\ frames["c1"].used[1].value # frames["c2"].used[1].value
  /\ ServerKey(accounts[1].label) \in DOMAIN serverCache
  /\ serverCache[ServerKey(accounts[1].label)].value = frames["c2"].used[1].value
  /\ frames["c1"].used[1].value # <<>>

\* ---------------------------------------------------------------- C19

\* The account of a configuration comes without a client identity: none is
\* given, or an empty one.
Unset(raw) == raw.client_identifier \in {None, Some("")}

\* The identities of the manager built from config are as stated: an
\* identity that is given is the account's, and one that is not is the one
\* every manager built from any configuration has for an account of that
\* label without identity, whatever its token and its place in the list.
IdentitiesOf(config) ==
  \A k \in 1 .. Len(config) :
    /\ accounts[k].label = config[k].label
    /\ ~Unset(config[k]) =>
         accounts[k].clientIdentifier = config[k].client_identifier[1]
    /\ Unset(config[k]) =>
         \A other \in IdentityConfigs : \A j \in 1 .. Len(other) :
           (other[j].label = config[k].label /\ Unset(other[j])) =>
             ConstructAccounts(accountConfigs(other))[j].clientIdentifier
               = accounts[k].clientIdentifier

\* The index of the account of the label given.
OwnerOf(label) == CHOOSE k \in 1 .. Len(accounts) : accounts[k].label = label

\* Every upstream call of frame f presents the identity of the account it
\* is made for: that of account a for a listing, a probe or a validation,
\* that of the server's account for a users call.
PresentsIdentity(f) ==
  \A j \in 1 .. Len(f.log) :
    LET call == f.log[j]
    IN /\ call.kind \in {"listResources", "probe", "validate"} =>
            call.identity = Some(accounts[call.a].clientIdentifier)
       /\ call.kind \in {"listLocal", "listShared"} =>
            call.identity =
              Some(accounts[OwnerOf(f.aggregated[call.a].accountLabel)]
                     .clientIdentifier)

\* The manager's identities are as stated for every configuration it can
\* have been built from, and are what its calls present.
IdentityKept ==
  /\ \A config \in IdentityConfigs :
       accounts = ConstructAccounts(accountConfigs(config)) =>
         IdentitiesOf(config)
  /\ \A c \in Callers : PresentsIdentity(frames[c])

\* C19: an account configured without a client identity has an identity
\* that depends on its label only (the same in every manager built with
\* that label) and presents it on every upstream call made for it; an
\* identity that is configured is used unchanged; and no step changes the
\* account list or its identities.
C19IdentityOfLabel ==
  [][accounts' = accounts /\ IdentityKept /\ IdentityKept']_vars

\* A manager of two accounts, the first with a configured identity and the
\* second with a derived one, that has made calls for both accounts and for
\* a server of the second.
C19Witness ==
  LET f == frames["c1"]
  IN /\ accounts = ConstructAccounts(accountConfigs(<<RawB, RawA>>))
     /\ CallsOf(f, "probe", 1) # {} /\ CallsOf(f, "probe", 2) # {}
     /\ \E j \in 1 .. Len(f.log) :
          /\ f.log[j].kind = "listShared"
          /\ f.aggregated[f.log[j].a].accountLabel = "a"
          /\ f.log[j].identity = Some(accounts[2].clientIdentifier)
     /\ accounts[1].clientIdentifier = "dev-b"
     /\ accounts[2].clientIdentifier # "dev-b"

\* ---------------------------------------------------------------- C21

\* The positions of all whose identity key no earlier position holds.
FirstOfKey(all) ==
  {p \in 1 .. Len(all) :
     \A q \in 1 .. p - 1 : IdentityKey(all[q]) # IdentityKey(all[p])}

\* list is all restricted to the first record of each identity key, in
\* order.
IsMergeOf(list, all) ==
  /\ Len(list) = Cardinality(FirstOfKey(all))
  /\ \A p \in FirstOfKey(all) :
       list[Cardinality({q \in FirstOfKey(all) : q <= p})] = all[p]

\* The fetch of frame f for its server s is as stated: the local listing is
\* called, then the shared one, once each; and the list written is the
\* records of the listings that answered, local ones first, merged by
\* identity key, so that every local record of a key of its own is kept.
FetchedBothPaths(f, s) ==
  LET u == f.uused[s]
      server == f.aggregated[s]
      locals == CallsOf(f, "listLocal", s)
      shareds == CallsOf(f, "listShared", s)
  IN /\ (u.state # "fresh" \/ f.refresh) <=> locals # {}
     /\ Cardinality(locals) <= 1 /\ Cardinality(shareds) <= 1
     /\ \A j \in shareds : \E i \in locals : i < j /\ f.log[i].res # "pending"
     /\ u.wrote =>
          /\ locals # {} /\ shareds # {}
          /\ u.resp # None /\ u.shared # None
          /\ LET local == LocalRecords(u.resp[1], server)
                 shared == SharedRecords(u.shared[1], server)
             IN /\ IsMergeOf(u.value, local \o shared)
                /\ \A p \in FirstOfKey(local) :
                     \E i \in 1 .. Len(u.value) : u.value[i] = local[p]
                /\ ~u.resp[1].ok => IsMergeOf(u.value, shared)
                /\ ~u.shared[1].ok => IsMergeOf(u.value, local)

\* The step by which call c writes the user list of its server s.
WritesUsers(c, s) ==
  /\ frames'[c].n = frames[c].n
  /\ s <= Len(frames[c].uused)
  /\ ~frames[c].uused[s].wrote
  /\ frames'[c].uused[s].wrote

\* C21: on a miss of a server's user list both listings are called, the
\* local one first and the shared one second; the list built is their
\* records merged in that order, the local record kept on a collision of
\* keys, the records of one listing kept when the other fails; and it is
\* written to the user tier under (machineIdentifier, accountLabel).
C21BothPathsMerged ==
  [][\A c \in Callers :
       \A s \in 1 .. Len(frames'[c].uused) :
         /\ FetchedBothPaths(frames'[c], s)
         /\ WritesUsers(c, s) =>
              LET server == frames'[c].aggregated[s]
                  key == <<"users", server.machineIdentifier,
                           server.accountLabel>>
              IN /\ key \in DOMAIN userCache'
                 /\ userCache'[key].value = frames'[c].uused[s].value]_vars

\* A list written from both listings, a shared record dropped for a local
\* one of its key; and a list written of local records alone, the shared
\* listing having failed.
C21Witness ==
  LET f == frames["c1"]
  IN /\ Len(f.uused) >= 2
     /\ f.uused[1].wrote /\ f.uused[2].wrote
     /\ f.uused[1].resp[1].ok /\ f.uused[1].shared[1].ok
     /\ Len(f.uused[1].value)
          < Len(f.uused[1].resp[1].nodes) + Len(f.uused[1].shared[1].entries)
     /\ f.uused[2].resp[1].ok /\ ~f.uused[2].shared[1].ok
     /\ f.uused[2].value # <<>>

\* ---------------------------------------------------------------- C22

\* The labels of the configured accounts.
Configured == {accounts[k].label : k \in 1 .. Len(accounts)}

\* Every server of the sequence carries the label given.
AllLabelled(servers, label) ==
  \A i \in 1 .. Len(servers) : servers[i].accountLabel = label

\* C22: every server a call of getServers bound, read from the cache or
\* returned carries the label of the configured account under whose
\* credential it was discovered, every cached server list does, and no call
\* of getServers, getUsersAcrossServers or searchUsers throws: the lookup
\* by a server's account label finds its account.
C22LabelKnown ==
  /\ \A key \in DOMAIN serverCache :
       /\ key[2] \in Configured
       /\ AllLabelled(serverCache[key].value, key[2])
  /\ \A c \in Callers :
       LET f == frames[c]
       IN /\ f.op \in {"getServers", "getUsers", "search"} =>
               /\ f.pc # "threw"
               /\ \A k \in 1 .. Len(f.used) :
                    AllLabelled(f.used[k].value, accounts[k].label)
               /\ f.i \in 1 .. Len(accounts) =>
                    AllLabelled(f.connected, accounts[f.i].label)
               /\ \A i \in 1 .. Len(f.aggregated) :
                    f.aggregated[i].accountLabel \in Configured
               /\ \A j \in 1 .. Len(f.log) :
                    f.log[j].kind \in {"listLocal", "listShared"} =>
                      HasAccount(f.aggregated[f.log[j].a].accountLabel)

\* A completed getUsersAcrossServers that read the second account's
\* servers from the cache and looked that account up to fetch the users of
\* one of them.
C22Witness ==
  LET f == frames["c1"]
  IN /\ f.op = "getUsers" /\ f.pc = "done"
     /\ Len(f.used) = 2 /\ f.used[2].state = "fresh"
     /\ \E j \in 1 .. Len(f.log) :
          /\ f.log[j].kind = "listLocal"
          /\ f.aggregated[f.log[j].a].accountLabel = accounts[2].label

\* ---------------------------------------------------------------- C23

\* The accounts (servers) whose cache entry call c reads in this step.
ReadsServers(c) ==
  (1 .. Len(frames'[c].used))
    \ (IF frames'[c].n = frames[c].n THEN 1 .. Len(frames[c].used) ELSE {})

ReadsUsers(c) ==
  (1 .. Len(frames'[c].uused))
    \ (IF frames'[c].n = frames[c].n THEN 1 .. Len(frames[c].uused) ELSE {})

\* An entry of the store under key, within its TTL.
Valid(store, key) == key \in DOMAIN store /\ now <= store[key].expiresAt

\* The entry an empty list written now is to leave.
EmptyEntry == [value |-> <<>>, expiresAt |-> now + cacheTtlMs]

\* C23: the list written for an account whose listResources call failed,
\* and for a server whose two listings failed, is the empty list, with
\* expiry now + TTL; a call that is not a refresh and reads an entry within
\* its TTL goes on with that entry and issues no call for that account
\* (server), so an entry of a failed fetch yields no servers (no users); and
\* a call is issued only on a refresh, for an absent entry (never written,
\* or cleared) or for one past its TTL.
C23FailureCached ==
  [][\A c \in Callers :
       LET g == frames'[c]
       IN g.op \in {"getServers", "getUsers", "search"} =>
          /\ \A k \in 1 .. Len(g.used) :
               (Writes(c, k) /\ g.used[k].resp # None /\ ~g.used[k].resp[1].ok) =>
                 /\ g.used[k].value = <<>>
                 /\ <<"servers", accounts[k].label>> \in DOMAIN serverCache'
                 /\ serverCache'[<<"servers", accounts[k].label>>] = EmptyEntry
          /\ \A s \in 1 .. Len(g.uused) :
               (/\ WritesUsers(c, s)
                /\ ~g.uused[s].resp[1].ok /\ ~g.uused[s].shared[1].ok) =>
                 LET key == <<"users", g.aggregated[s].machineIdentifier,
                              g.aggregated[s].accountLabel>>
                 IN /\ g.uused[s].value = <<>>
                    /\ key \in DOMAIN userCache'
                    /\ userCache'[key] = EmptyEntry
          /\ \A k \in ReadsServers(c) :
               LET key == <<"servers", accounts[k].label>>
                   calls == {j \in 1 .. Len(g.log) :
                               /\ g.log[j].kind \in {"listResources", "probe"}
                               /\ g.log[j].a = k}
               IN /\ (Valid(serverCache, key) /\ ~g.refresh) =>
                       /\ g.used[k].state = "fresh"
                       /\ g.used[k].value = serverCache[key].value
                       /\ calls = {}
                       /\ g.used[k].value = <<>> =>
                            \A i \in 1 .. Len(g.aggregated) :
                              g.aggregated[i].accountLabel # accounts[k].label
                  /\ calls # {} => (g.refresh \/ ~Valid(serverCache, key))
          /\ \A s \in ReadsUsers(c) :
               LET key == <<"users", g.aggregated[s].machineIdentifier,
                            g.aggregated[s].accountLabel>>
                   calls == CallsOf(g, "listLocal", s) \cup CallsOf(g, "listShared", s)
               IN /\ (Valid(userCache, key) /\ ~g.refresh) =>
                       /\ g.uused[s].state = "fresh"
                       /\ g.uused[s].value = userCache[key].value
                       /\ calls = {}
                  /\ calls # {} => (g.refresh \/ ~Valid(userCache, key))]_vars

\* A completed getUsersAcrossServers(false) that follows a call whose
\* listResources failed for an account and whose two listings failed for a
\* server, within the TTL of what that call wrote: it issues no call and
\* returns no users.
C23Witness ==
  LET f == frames["c1"]
  IN /\ f.op = "getUsers" /\ f.pc = "done" /\ ~f.refresh
     /\ f.repeat = "failedBoth"
     /\ Len(accounts) = 2 /\ Len(f.aggregated) >= 1
     /\ f.log = <<>>
     /\ f.users = <<>>

\* ---------------------------------------------------------------- C24

\* The calls of getUsersAcrossServers and searchUsers.
UserPasses == {c \in Callers : frames[c].op \in {"getUsers", "search"}}

\* The record is of a server of the list.
OfServerIn(user, servers) ==
  \E i \in 1 .. Len(servers) :
    /\ user.serverIdentifier = servers[i].machineIdentifier
    /\ user.accountLabel = servers[i].accountLabel

\* The user-list entries within their TTL of servers that are not in the
\* list.
StaleFor(servers) ==
  {key \in DOMAIN userCache :
     /\ now <= userCache[key].expiresAt
     /\ userCache[key].value # <<>>
     /\ \A i \in 1 .. Len(servers) :
          <<servers[i].machineIdentifier, servers[i].accountLabel>>
            # <<key[2], key[3]>>}

\* C24: every record getUsersAcrossServers has gathered or returns is of a
\* server of the server list the same call obtained (serverIdentifier and
\* accountLabel are that server's machineIdentifier and account label); no
\* record of a user-list entry of a server that is not in that list is
\* among them, though the entry is within its TTL.
C24UsersOfListedServers ==
  \A c \in UserPasses :
    LET f == frames[c]
    IN /\ \A p \in 1 .. Len(f.users) : OfServerIn(f.users[p], f.aggregated)
       /\ \A key \in StaleFor(f.aggregated) :
            \A p \in 1 .. Len(f.users) :
              <<f.users[p].serverIdentifier, f.users[p].accountLabel>>
                # <<key[2], key[3]>>

\* A completed getUsersAcrossServers that returns users while the cache
\* holds, within its TTL, the users of a server that is not in the call's
\* server list.
C24Witness ==
  LET f == frames["c1"]
  IN /\ f.op = "getUsers" /\ f.pc = "done"
     /\ StaleFor(f.aggregated) # {}
     /\ f.users # <<>>

\* ---------------------------------------------------------------- C25

\* This step is a set of the server-list (user-list) tier on the key.
SetsServers(key) ==
  \E c \in Callers : \E k \in 1 .. Len(accounts) :
    Writes(c, k) /\ key = <<"servers", accounts[k].label>>

SetsUsers(key) ==
  \E c \in Callers : \E s \in 1 .. Len(frames'[c].uused) :
    /\ WritesUsers(c, s)
    /\ key = <<"users", frames'[c].aggregated[s].machineIdentifier,
                frames'[c].aggregated[s].accountLabel>>

\* The step leaves the expiry of every entry as it was, but for the key of
\* a set, whose expiry it leaves at now + TTL; no expiry is beyond that.
ExpiryKept(before, after, set(_)) ==
  \A key \in DOMAIN after :
    /\ after[key].expiresAt <= now + cacheTtlMs
    /\ IF set(key) THEN after[key].expiresAt = now + cacheTtlMs
       ELSE key \in DOMAIN before
              /\ after[key].expiresAt = before[key].expiresAt

\* C25: no entry of either tier has an expiry beyond the time of its last
\* write + TTL; only a set on its key changes an entry's expiry, a read
\* never does; and a list a non-refresh call is served from the cache was
\* written no more than TTL before the read.
C25FreshnessBound ==
  [][/\ ExpiryKept(serverCache, serverCache', SetsServers)
     /\ ExpiryKept(userCache, userCache', SetsUsers)
     /\ \A c \in Callers :
          frames'[c].op \in {"getServers", "getUsers", "search"} =>
            /\ \A k \in ReadsServers(c) :
                 frames'[c].used[k].state = "fresh" =>
                   LET entry == serverCache[<<"servers", accounts[k].label>>]
                   IN /\ entry.value = frames'[c].used[k].value
                      /\ now - (entry.expiresAt - cacheTtlMs) <= cacheTtlMs
            /\ \A s \in ReadsUsers(c) :
                 frames'[c].uused[s].state = "fresh" =>
                   LET server == frames'[c].aggregated[s]
                       entry == userCache[<<"users", server.machineIdentifier,
                                            server.accountLabel>>]
                   IN /\ entry.value = frames'[c].uused[s].value
                      /\ now - (entry.expiresAt - cacheTtlMs) <= cacheTtlMs]_vars

\* A completed non-refresh call that was served an account's list from the
\* cache at the very time of its expiry, TTL after the write, the entry
\* being left with the expiry it had.
C25Witness ==
  LET f == frames["c1"]
      key == <<"servers", accounts[1].label>>
  IN /\ f.op \in {"getServers", "getUsers"} /\ f.pc = "done" /\ ~f.refresh
     /\ f.used[1].state = "fresh"
     /\ f.used[1].expiresAt = now
     /\ f.log = <<>>
     /\ key \in DOMAIN serverCache
     /\ serverCache[key].expiresAt = now

\* ---------------------------------------------------------------- C26

\* The four operations that fan out.
FanOuts == {"getServers", "getUsers", "search", "validate"}

\* Caller c1 has a call of a fan-out operation in progress; it has returned.
Busy ==
  /\ frames["c1"].op \in FanOuts
  /\ frames["c1"].pc \notin {"idle", "done", "threw"}

Returned == frames["c1"].op \in FanOuts /\ frames["c1"].pc = "done"

\* The calls of frame f are within the budget of one pass: one listing (or
\* validation) at most for an account, one probe at most for an endpoint
\* with a uri of a resource the listing gave, one local and one shared
\* listing at most for a server of the result, and no other call.
WithinBudget(f) ==
  /\ \A j \in 1 .. Len(f.log) :
       LET call == f.log[j]
       IN /\ call.kind \in {"listResources", "probe", "validate",
                             "listLocal", "listShared"}
          /\ \A i \in 1 .. Len(f.log) :
               (/\ f.log[i].kind = call.kind /\ f.log[i].a = call.a
                /\ f.log[i].b = call.b /\ f.log[i].c = call.c) => i = j
          /\ call.kind \in {"listResources", "probe", "validate"} =>
               call.a \in 1 .. Len(accounts)
          /\ call.kind = "probe" =>
               LET devices == Listed(f.used[call.a].resp[1])
               IN /\ call.b \in 1 .. Len(devices)
                  /\ call.c \in Endpoints(devices[call.b])
          /\ call.kind \in {"listLocal", "listShared"} =>
               call.a \in 1 .. Len(f.aggregated)
          /\ call.kind # "probe" => (call.b = 0 /\ call.c = 0)

\* C26: when every upstream call returns or fails in the end, every call
\* of getServers, getUsersAcrossServers, searchUsers and validateAccounts
\* returns in the end; and at every time the calls of a pass are within
\* its budget.
C26Completes ==
  /\ Busy ~> Returned
  /\ [](frames["c1"].op \in FanOuts => WithinBudget(frames["c1"]))

\* A getUsersAcrossServers that returned after calls of every kind for two
\* accounts, one of them failed.
C26Witness ==
  LET f == frames["c1"]
  IN /\ Returned /\ f.op = "getUsers"
     /\ \A k \in 1 .. 2 : CallsOf(f, "listResources", k) # {}
     /\ Cardinality({j \in 1 .. Len(f.log) : f.log[j].kind = "probe"}) >= 3
     /\ \E j \in 1 .. Len(f.log) : f.log[j].kind = "listShared"
     /\ \E j \in 1 .. Len(f.log) : f.log[j].res = "failed"

====
